---- MODULE Spec2Model ----
(***************************************************************************)
(* Trend-detection and pattern-mining engine of DWM_PROJECT.               *)
(*                                                                         *)
(*   PatternMining        src/unnamed/part_000                             *)
(*   TrendMinerDashboard  src/unnamed/part_001                             *)
(*   TrendAnalysis        src/frontend/src/pages/TrendAnalysis.tsx         *)
(*                                                                         *)
(* JavaScript strings are TLA+ strings (Len, SubSeq and \o act on them),   *)
(* JavaScript numbers are exact rationals <<n, d>> with d > 0 in lowest    *)
(* terms, and a timestamp is the day number getTime() / 86400000 of the    *)
(* parsed date.                                                            *)
(***************************************************************************)
EXTENDS Integers, Sequences, FiniteSets, TLC

VARIABLES
    pc,                 \* which component ran last
    data,               \* the parsed post rows handed to the component
    now,                \* the clock read by new Date(), in days
    loading,            \* the component's loading flag
    associationRules,   \* PatternMining state
    frequentItemsets,   \* PatternMining state
    sequentialPatterns, \* PatternMining state
    previous,           \* the outputs as last returned (history)
    temporalPatterns,   \* TrendAnalysis state
    tallies,            \* the maps the counting loops have built
    trends,             \* TrendMinerDashboard: the extractTrends memo
    values,             \* classifier: the period buckets of one Trend
    growthRates,        \* classifier: the per-step growth rates
    pattern,            \* classifier: the label
    metrics,            \* scorer: the six sub-metrics of one Trend
    trendScore,         \* scorer: the composite score
    useBackend,         \* TrendMinerDashboard: the useBackend flag
    backendTrends,      \* TrendMinerDashboard: the trends the backend sent
    selectedInterests,  \* TrendMinerDashboard: the selected topics
    loadData            \* the position of each loadData call in flight

vars == <<pc, data, now, loading, associationRules, frequentItemsets,
          sequentialPatterns, previous, temporalPatterns, tallies, trends,
          values, growthRates, pattern, metrics, trendScore,
          useBackend, backendTrends, selectedInterests, loadData>>

\* the state of the dashboard loader and of the interests modal
loader == <<useBackend, backendTrends, selectedInterests, loadData>>

\* part_001 lines 129-131: the initial values of the useState hooks
Unmounted == /\ useBackend = TRUE /\ backendTrends = <<>>
             /\ selectedInterests = <<>> /\ loadData = <<>>

-----------------------------------------------------------------------------
(* Sequences and sets.                                                     *)

Range(s) == {s[i] : i \in DOMAIN s}

RECURSIVE SumSeq(_)
SumSeq(s) == IF s = <<>> THEN 0 ELSE Head(s) + SumSeq(Tail(s))

Min(a, b) == IF a < b THEN a ELSE b
Max(a, b) == IF a > b THEN a ELSE b
Abs(a) == IF a < 0 THEN -a ELSE a

\* Array.prototype.slice(0, n)
Take(s, n) == SubSeq(s, 1, Min(n, Len(s)))

\* Array.prototype.slice(-n)
Last(s, n) == SubSeq(s, Len(s) - Min(n, Len(s)) + 1, Len(s))

\* the sequence s with every element computed
Tuple(s) == s \o <<>>

\* Array.prototype.sort((a, b) => key(a) - key(b)): stable, ascending;
\* the element of index i lands behind those of a smaller key and those of
\* the same key that precede it
SortBy(s, keys) ==
    LET elems == Tuple(s)
        key == Tuple(keys)
        rank(i) == Cardinality({j \in 1..Len(elems) :
                       key[j] < key[i] \/ (key[j] = key[i] /\ j < i)}) + 1
    IN  Tuple([r \in 1..Len(elems) |->
                  elems[CHOOSE i \in 1..Len(elems) : rank(i) = r]])

\* Array.prototype.flat of a sequence of sequences
Flatten(ss) ==
    LET parts == Tuple([i \in 1..Len(ss) |-> Tuple(ss[i])])
        n == Len(parts)
        m == IF n = 0 THEN 0
             ELSE CHOOSE l \in {Len(parts[i]) : i \in 1..n} :
                      \A i \in 1..n : Len(parts[i]) <= l
        at == SelectSeq([k \in 1..(n * m) |-> <<((k - 1) \div m) + 1, ((k - 1) % m) + 1>>],
                        LAMBDA p : p[2] <= Len(parts[p[1]]))
    IN  Tuple([k \in 1..Len(at) |-> parts[at[k][1]][at[k][2]]])

-----------------------------------------------------------------------------
(* JavaScript numbers as exact rationals.                                  *)

RECURSIVE Gcd(_, _)
Gcd(a, b) == IF b = 0 THEN a ELSE Gcd(b, a % b)

Rat(n, d) ==
    LET s == IF d < 0 THEN -1 ELSE 1
        g == Gcd(Abs(n), Abs(d))
    IN  IF n = 0 THEN <<0, 1>> ELSE <<(s * n) \div g, (s * d) \div g>>

RInt(n) == <<n, 1>>
RAdd(a, b) == Rat(a[1] * b[2] + b[1] * a[2], a[2] * b[2])
RSub(a, b) == Rat(a[1] * b[2] - b[1] * a[2], a[2] * b[2])
RMul(a, b) == Rat(a[1] * b[1], a[2] * b[2])
RDiv(a, b) == Rat(a[1] * b[2], a[2] * b[1])
RLt(a, b) == a[1] * b[2] < b[1] * a[2]
RLe(a, b) == a[1] * b[2] <= b[1] * a[2]
RMin(a, b) == IF RLt(a, b) THEN a ELSE b
RMax(a, b) == IF RLt(b, a) THEN a ELSE b
RAbs(a) == <<Abs(a[1]), a[2]>>

RECURSIVE RSum(_)
RSum(s) == IF s = <<>> THEN RInt(0) ELSE RAdd(Head(s), RSum(Tail(s)))

\* Math.round: the nearest integer, a half rounding up
Round(a) == (2 * a[1] + a[2]) \div (2 * a[2])

\* Math.round(x * 100) / 100
Round2(a) == Rat(Round(RMul(a, RInt(100))), 100)

\* Math.sign
Sign(a) == IF a[1] > 0 THEN 1 ELSE IF a[1] < 0 THEN -1 ELSE 0

-----------------------------------------------------------------------------
(* JavaScript strings.                                                     *)

UpperCase == "ABCDEFGHIJKLMNOPQRSTUVWXYZ"
LowerCase == "abcdefghijklmnopqrstuvwxyz"
OtherWord == "0123456789_"

\* the characters of the model's strings in UTF-16 code-unit order
CodeOrder == " #&,-0123456789ABCDEFGHIJKLMNOPQRSTUVWXYZ_abcdefghijklmnopqrstuvwxyz|"

Char(s, i) == SubSeq(s, i, i)
Chars(alphabet) == {Char(alphabet, i) : i \in 1..Len(alphabet)}
IndexIn(c, alphabet) ==
    IF \E i \in 1..Len(alphabet) : Char(alphabet, i) = c
    THEN CHOOSE i \in 1..Len(alphabet) : Char(alphabet, i) = c
    ELSE 0

UpperChars == Chars(UpperCase)
LowerChars == Chars(LowerCase)
WordChars == Chars(UpperCase) \cup Chars(LowerCase) \cup Chars(OtherWord)

\* the lower-case letter of every upper-case letter
LowerOf == [c \in UpperChars |-> Char(LowerCase, IndexIn(c, UpperCase))]

\* the position of every character in CodeOrder
CodeOf == [c \in Chars(CodeOrder) |-> IndexIn(c, CodeOrder)]

IsUpper(c) == c \in UpperChars
IsLower(c) == c \in LowerChars
IsWordChar(c) == c \in WordChars

\* String.prototype.toLowerCase
RECURSIVE ToLowerCase(_)
ToLowerCase(s) ==
    IF s = "" THEN ""
    ELSE LET c == Char(s, 1)
         IN  (IF IsUpper(c) THEN LowerOf[c] ELSE c)
                \o ToLowerCase(SubSeq(s, 2, Len(s)))

\* String.prototype.trim
RECURSIVE Trim(_)
Trim(s) ==
    IF s = "" THEN ""
    ELSE IF Char(s, 1) = " " THEN Trim(SubSeq(s, 2, Len(s)))
    ELSE IF Char(s, Len(s)) = " " THEN Trim(SubSeq(s, 1, Len(s) - 1))
    ELSE s

\* String.prototype.includes
Includes(s, sub) ==
    \E i \in 1..(Len(s) + 1) :
        i + Len(sub) - 1 <= Len(s) /\ SubSeq(s, i, i + Len(sub) - 1) = sub

\* String.prototype.split(sep), sep one character
RECURSIVE Split(_, _)
Split(s, sep) ==
    IF \E i \in 1..Len(s) : Char(s, i) = sep
    THEN LET i == CHOOSE j \in 1..Len(s) :
                      Char(s, j) = sep /\ \A k \in 1..(j - 1) : Char(s, k) # sep
         IN  <<SubSeq(s, 1, i - 1)>> \o Split(SubSeq(s, i + 1, Len(s)), sep)
    ELSE <<s>>

\* String.prototype.replace(/^#/, '')
StripLeadingHash(s) ==
    IF Len(s) > 0 /\ Char(s, 1) = "#" THEN SubSeq(s, 2, Len(s)) ELSE s

\* String.prototype.replace("#", ""): the first occurrence only
RemoveFirstHash(s) ==
    IF \E i \in 1..Len(s) : Char(s, i) = "#"
    THEN LET i == CHOOSE j \in 1..Len(s) :
                      Char(s, j) = "#" /\ \A k \in 1..(j - 1) : Char(s, k) # "#"
         IN  SubSeq(s, 1, i - 1) \o SubSeq(s, i + 1, Len(s))
    ELSE s

\* the default Array.prototype.sort order of two strings
RECURSIVE StrLess(_, _)
StrLess(a, b) ==
    IF b = "" THEN FALSE
    ELSE IF a = "" THEN TRUE
    ELSE LET x == CodeOf[Char(a, 1)]
             y == CodeOf[Char(b, 1)]
         IN  IF x # y THEN x < y
             ELSE StrLess(SubSeq(a, 2, Len(a)), SubSeq(b, 2, Len(b)))

\* Array.prototype.join("|")
RECURSIVE Join(_)
Join(s) ==
    IF s = <<>> THEN ""
    ELSE IF Len(s) = 1 THEN s[1]
    ELSE s[1] \o "|" \o Join(Tail(s))

\* the items of a Set in insertion order
Dedup(s) ==
    LET elems == Tuple(s)
        first == SelectSeq([i \in 1..Len(elems) |-> i],
                           LAMBDA i : \A j \in 1..(i - 1) : elems[j] # elems[i])
    IN  Tuple([k \in 1..Len(first) |-> elems[first[k]]])

-----------------------------------------------------------------------------
(* Temporal Classifier: TrendAnalysis.processTemporalPatterns, the part    *)
(* that turns the period buckets of one Trend into a label.                *)

MaxWeeks == 5

\* line 229: Math.max(-200, Math.min(200, rate))
Clamp(lo, hi, x) == RMax(RInt(lo), RMin(RInt(hi), x))

\* the rate left unclamped
GrowthRateUnclamped(prev, cur) ==
    IF prev > 0 THEN Rat((cur - prev) * 100, prev)
    ELSE RInt(IF cur > 0 THEN 100 ELSE 0)

\* lines 227-232: one step of the growth-rate loop
GrowthRate(prev, cur) ==
    IF prev > 0 THEN Clamp(-200, 200, Rat((cur - prev) * 100, prev))
    ELSE RInt(IF cur > 0 THEN 100 ELSE 0)

\* lines 225-233
GrowthRatesOf(vals) ==
    [i \in 1..(Len(vals) - 1) |-> GrowthRate(vals[i], vals[i + 1])]

\* line 238
AvgGrowth(rates) == RDiv(RSum(rates), RInt(Len(rates)))

\* line 239
RecentGrowth(rates) ==
    RDiv(RSum(Last(rates, Min(3, Len(rates)))), RInt(Min(3, Len(rates))))

\* the sign changes counted whatever the magnitude of the later rate
SignChangesAnyMagnitude(rates) ==
    Cardinality({i \in 2..Len(rates) : Sign(rates[i]) # Sign(rates[i - 1])})

\* lines 248-253
SignChanges(rates) ==
    Cardinality({i \in 2..Len(rates) :
        Sign(rates[i]) # Sign(rates[i - 1]) /\ RLt(RInt(10), RAbs(rates[i]))})

ClassifySignSlip(rates) ==
    LET avgGrowth == AvgGrowth(rates)
        recentGrowth == RecentGrowth(rates)
    IN  IF RLt(RInt(30), recentGrowth) /\ RLt(RInt(15), avgGrowth) THEN "emerging"
        ELSE IF RLt(recentGrowth, RInt(20)) /\ RLt(avgGrowth, RInt(-10))
             THEN "declining"
        ELSE IF RLt(RAbs(avgGrowth), RInt(15)) THEN "sustained"
        ELSE IF RLe(RMax(RInt(2), Rat(Len(rates), 3)), RInt(SignChanges(rates)))
             THEN "cyclical"
        ELSE "sustained"

\* lines 237-257
Classify(rates) ==
    LET avgGrowth == AvgGrowth(rates)
        recentGrowth == RecentGrowth(rates)
    IN  IF RLt(RInt(30), recentGrowth) /\ RLt(RInt(15), avgGrowth) THEN "emerging"
        ELSE IF RLt(recentGrowth, RInt(-20)) /\ RLt(avgGrowth, RInt(-10))
             THEN "declining"
        ELSE IF RLt(RAbs(avgGrowth), RInt(15)) THEN "sustained"
        ELSE IF RLe(RMax(RInt(2), Rat(Len(rates), 3)), RInt(SignChanges(rates)))
             THEN "cyclical"
        ELSE "sustained"

\* line 259
Velocity(rates) == Round(Clamp(-100, 100, RecentGrowth(rates)))

\* bucket values of one Trend: weekly sums of integer engagement
BucketPool == {0, 20, 35, 50, 100}

\* bucket sequences whose growth rates are [40, 35, 32], [-30, -25, -22]
\* and [5, -3, 4]
LiteralBuckets == { <<10000, 14000, 18900, 24948>>,
                    <<10000, 7000, 5250, 4095>>,
                    <<100000, 105000, 101850, 105924>> }

BucketInputs ==
    LiteralBuckets \cup UNION {[1..n -> BucketPool] : n \in 2..MaxWeeks}

Idle == /\ data = <<>> /\ now = 0 /\ loading = TRUE /\ Unmounted
        /\ associationRules = <<>> /\ frequentItemsets = <<>>
        /\ sequentialPatterns = <<>> /\ previous = <<>> /\ temporalPatterns = <<>>
              /\ tallies = <<>> /\ trends = <<>>
        /\ metrics = <<>> /\ trendScore = <<0, 1>>

InitClassify == /\ pc = "buckets" /\ values \in BucketInputs
                /\ growthRates = <<>> /\ pattern = "none" /\ Idle

\* lines 223-257 for one Trend with at least 2 buckets
ClassifyTrend ==
    /\ pc = "buckets"
    /\ Len(values) >= 2
    /\ growthRates' = GrowthRatesOf(values)
    /\ pattern' = Classify(growthRates')
    /\ pc' = "classified"
    /\ UNCHANGED <<loader, data, now, loading, associationRules, frequentItemsets,
                   sequentialPatterns, previous, temporalPatterns, tallies,
                   trends, values, metrics,
                   trendScore>>

NextClassify == ClassifyTrend

SpecClassify == InitClassify /\ [][NextClassify]_vars

Labels == {"emerging", "sustained", "declining", "cyclical"}

\* C2: the label follows the ordered rules, the first match winning, with
\* avgGrowth the mean of all rates and recentGrowth the mean of the last
\* min(3, n); [40,35,32] is emerging, [-30,-25,-22] declining, [5,-3,4]
\* sustained; every non-empty sequence gets one of the four labels.
C2_OrderedRules ==
    pc = "classified" =>
        LET n == Len(growthRates)
            k == IF n < 3 THEN n ELSE 3
            total == RSum(growthRates)
            recent == RSum(SubSeq(growthRates, n - k + 1, n))
            emerging == RLt(RInt(30 * k), recent) /\ RLt(RInt(15 * n), total)
            declining == RLt(recent, RInt(-20 * k)) /\ RLt(total, RInt(-10 * n))
            flat == RLt(RInt(-15 * n), total) /\ RLt(total, RInt(15 * n))
        IN  /\ n > 0
            /\ pattern \in Labels
            /\ emerging => pattern = "emerging"
            /\ (~emerging /\ declining) => pattern = "declining"
            /\ (~emerging /\ ~declining /\ flat) => pattern = "sustained"
            /\ pattern = "emerging" => emerging
            /\ pattern = "declining" => declining
            /\ growthRates = <<RInt(40), RInt(35), RInt(32)>>
                    => pattern = "emerging"
            /\ growthRates = <<RInt(-30), RInt(-25), RInt(-22)>>
                    => pattern = "declining"
            /\ growthRates = <<RInt(5), RInt(-3), RInt(4)>>
                    => pattern = "sustained"

C2_Witness ==
    /\ pc = "classified"
    /\ growthRates = <<RInt(-30), RInt(-25), RInt(-22)>>
    /\ pattern = "declining"

\* C3: every per-step growth rate is (cur-prev)/prev*100 clamped to
\* [-200, 200] when prev > 0, 100 when prev is 0 and cur > 0, 0 when both
\* are 0; so every entry of the sequence lies in [-200, 200].
C3_RatesClamped ==
    pc = "classified" =>
        /\ Len(growthRates) = Len(values) - 1
        /\ \A i \in 1..Len(growthRates) :
            LET prev == values[i]
                cur == values[i + 1]
                r == growthRates[i]
            IN  /\ -200 * r[2] <= r[1] /\ r[1] <= 200 * r[2]
                /\ (prev > 0 /\ (cur - prev) * 100 > 200 * prev) => r = RInt(200)
                /\ (prev > 0 /\ (cur - prev) * 100 < -200 * prev) => r = RInt(-200)
                /\ (prev > 0 /\ (cur - prev) * 100 <= 200 * prev
                             /\ (cur - prev) * 100 >= -200 * prev)
                      => r[1] * prev = (cur - prev) * 100 * r[2]
                /\ (prev = 0 /\ cur > 0) => r = RInt(100)
                /\ (prev = 0 /\ cur = 0) => r = RInt(0)

C3_Witness ==
    /\ pc = "classified"
    /\ \E i \in 1..Len(growthRates) :
          /\ values[i] = 20 /\ values[i + 1] = 100 /\ growthRates[i] = RInt(200)
    /\ \E i \in 1..Len(growthRates) :
          /\ values[i] = 0 /\ values[i + 1] = 35 /\ growthRates[i] = RInt(100)

-----------------------------------------------------------------------------
(* Trend Scorer: calculateTrendMetrics of part_001.  Math.log10 and        *)
(* Math.exp are tabulated to six decimals over the arguments the post      *)
(* pools below produce, and the composite is summed in units of 10^-6.     *)

\* floor(10^6 * log10(x)) for the mean engagements + 1 of member lists of
\* posts with raw engagement 99 or 999
Log10Micro ==
    <<1, 1>> :> 0 @@ <<17, 2>> :> 929418 @@ <<11, 1>> :> 1041392
    @@ <<16, 1>> :> 1204119 @@ <<21, 1>> :> 1322219 @@ <<47, 2>> :> 1371067
    @@ <<103, 4>> :> 1410777 @@ <<31, 1>> :> 1491361 @@ <<133, 4>> :> 1521791
    @@ <<34, 1>> :> 1531478 @@ <<163, 4>> :> 1610127 @@ <<44, 1>> :> 1643452
    @@ <<193, 4>> :> 1683497 @@ <<101, 2>> :> 1703291 @@ <<101, 1>> :> 2004321 @@ <<54, 1>> :> 1732393
    @@ <<58, 1>> :> 1763427 @@ <<131, 2>> :> 1816241 @@ <<67, 1>> :> 1826074
    @@ <<301, 4>> :> 1876506 @@ <<77, 1>> :> 1886490 @@ <<331, 4>> :> 1917768
    @@ <<100, 1>> :> 2000000 @@ <<175, 1>> :> 2243038
    @@ <<2000, 11>> :> 2259637 @@ <<190, 1>> :> 2278753
    @@ <<200, 1>> :> 2301029 @@ <<425, 2>> :> 2327358
    @@ <<1600, 7>> :> 2359021 @@ <<250, 1>> :> 2397940
    @@ <<1003, 4>> :> 2399240 @@ <<1033, 4>> :> 2412040
    @@ <<2900, 11>> :> 2421005 @@ <<1063, 4>> :> 2424473
    @@ <<1093, 4>> :> 2436560 @@ <<551, 2>> :> 2440121
    @@ <<280, 1>> :> 2447158 @@ <<283, 1>> :> 2451786
    @@ <<581, 2>> :> 2463146 @@ <<300, 1>> :> 2477121
    @@ <<1201, 4>> :> 2477483 @@ <<1231, 4>> :> 2488198
    @@ <<325, 1>> :> 2511883 @@ <<334, 1>> :> 2523746
    @@ <<344, 1>> :> 2536558 @@ <<3800, 11>> :> 2538390
    @@ <<354, 1>> :> 2549003 @@ <<2500, 7>> :> 2552841
    @@ <<367, 1>> :> 2564666 @@ <<370, 1>> :> 2568201
    @@ <<377, 1>> :> 2576341 @@ <<400, 1>> :> 2602059
    @@ <<4700, 11>> :> 2630705 @@ <<875, 2>> :> 2640978
    @@ <<460, 1>> :> 2662757 @@ <<475, 1>> :> 2676693
    @@ <<3400, 7>> :> 2686380 @@ <<500, 1>> :> 2698970
    @@ <<1001, 2>> :> 2699404 @@ <<508, 1>> :> 2705863
    @@ <<5600, 11>> :> 2706795 @@ <<1031, 2>> :> 2712228
    @@ <<2101, 4>> :> 2720366 @@ <<2131, 4>> :> 2726523
    @@ <<550, 1>> :> 2740362 @@ <<6500, 11>> :> 2771520
    @@ <<600, 1>> :> 2778151 @@ <<4300, 7>> :> 2788370
    @@ <<625, 1>> :> 2795880 @@ <<640, 1>> :> 2806179
    @@ <<1325, 2>> :> 2821185 @@ <<667, 1>> :> 2824125
    @@ <<7400, 11>> :> 2827839 @@ <<677, 1>> :> 2830588
    @@ <<700, 1>> :> 2845098 @@ <<730, 1>> :> 2863322
    @@ <<5200, 7>> :> 2870905 @@ <<3001, 4>> :> 2875206
    @@ <<8300, 11>> :> 2877685 @@ <<3031, 4>> :> 2879525
    @@ <<775, 1>> :> 2889301 @@ <<800, 1>> :> 2903089
    @@ <<820, 1>> :> 2913813 @@ <<9200, 11>> :> 2922395
    @@ <<850, 1>> :> 2929418 @@ <<6100, 7>> :> 2940231
    @@ <<1775, 2>> :> 2948168 @@ <<900, 1>> :> 2954242
    @@ <<910, 1>> :> 2959041 @@ <<10100, 11>> :> 2962928
    @@ <<925, 1>> :> 2966141 @@ <<1000, 1>> :> 3000000

\* floor(10^6 * exp(-d / 7)) for d = 0..70 days, i.e. exp(-hours / 168)
ExpDecayMicro ==
    << 1000000, 866877, 751477, 651439, 564718, 489541, 424372, 367879,
       318906, 276453, 239651, 207748, 180092, 156118, 135335, 117319,
       101701, 88162, 76426, 66252, 57432, 49787, 43159, 37413,
       32433, 28115, 24372, 21128, 18315, 15877, 13763, 11931,
       10343, 8966, 7772, 6737, 5840, 5063, 4389, 3805,
       3298, 2859, 2478, 2148, 1862, 1614, 1399, 1213,
       1051, 911, 790, 685, 594, 514, 446, 386,
       335, 290, 252, 218, 189, 164, 142, 123,
       106, 92, 80, 69, 60, 52, 45 >>

\* floor(10^6 * r) by long division
ToMicro(r) ==
    LET q == r[1] \div r[2]
        rem == r[1] % r[2]
        hi == (rem * 1000) \div r[2]
        rem2 == (rem * 1000) % r[2]
        lo == (rem2 * 1000) \div r[2]
    IN  q * 1000000 + hi * 1000 + lo

RawEngagement(p) == p.likes + p.shares + p.comments

\* support added without its weight
CompositeScoreUnweightedSupport(support, velocity, momentum, engagementScore, diversityScore, avgRecency) ==
    Rat(Round(Rat(support + velocity * 50 + momentum * 30
                  + engagementScore * 40 + diversityScore * 20
                  + avgRecency * 30, 10000)), 100)

\* part_001 lines 109-116 and 122; the arguments in units of 10^-6
CompositeScore(support, velocity, momentum, engagementScore, diversityScore, avgRecency) ==
    Rat(Round(Rat(support * 100 + velocity * 50 + momentum * 30
                  + engagementScore * 40 + diversityScore * 20
                  + avgRecency * 30, 10000)), 100)

\* the momentum fallback 0 in place of 1
CalculateTrendMetricsZeroFallback(posts, totalPosts, nowDay) ==
    IF Len(posts) = 0
    THEN [support |-> RInt(0), velocity |-> RInt(0), momentum |-> RInt(0),
          trendScore |-> RInt(0)]
    ELSE
    LET n == Len(posts)
        support == Rat(n, totalPosts)
        sortedPosts == SortBy(posts, [i \in 1..n |-> posts[i].timestamp])
        last7d == Cardinality({i \in 1..n : nowDay - posts[i].timestamp <= 7})
        last30d == Cardinality({i \in 1..n : nowDay - posts[i].timestamp <= 30})
        recentRate == Rat(last7d, 7)
        olderRate == Rat(last30d - last7d, 23)
        velocity == IF RLt(RInt(0), olderRate)
                    THEN RDiv(RSub(recentRate, olderRate), olderRate)
                    ELSE recentRate
        midpoint == n \div 2
        recentPosts == SubSeq(sortedPosts, midpoint + 1, n)
        olderPosts == SubSeq(sortedPosts, 1, midpoint)
        engagementSum(ps) == SumSeq([i \in 1..Len(ps) |-> RawEngagement(ps[i])])
        recentEngagement == Rat(engagementSum(recentPosts), Len(recentPosts))
        \* 0 / 0 is NaN when olderPosts is empty, and NaN > 0 is false
        momentum == IF midpoint > 0 /\ engagementSum(olderPosts) > 0
                    THEN LET olderEngagement ==
                                 Rat(engagementSum(olderPosts), midpoint)
                         IN  RDiv(RSub(recentEngagement, olderEngagement),
                                  olderEngagement)
                    ELSE RInt(0)
        avgEngagement == Rat(engagementSum(posts), n)
        engagementScore == Log10Micro[RAdd(avgEngagement, RInt(1))] \div 5
        uniquePlatforms == Cardinality({posts[i].platform : i \in 1..n})
        uniqueTopics == Cardinality({posts[i].topic : i \in 1..n})
        diversityScore ==
            RDiv(RAdd(Rat(uniquePlatforms, 5), Rat(uniqueTopics, 12)), RInt(2))
        avgRecency ==
            SumSeq([i \in 1..n |->
                        ExpDecayMicro[nowDay - posts[i].timestamp + 1]]) \div n
    IN  [support |-> Rat(Round(RMul(support, RInt(10000))), 100),
         velocity |-> Round2(velocity),
         momentum |-> Round2(momentum),
         trendScore |-> CompositeScore(ToMicro(support), ToMicro(velocity),
                                       ToMicro(momentum), engagementScore,
                                       ToMicro(diversityScore), avgRecency)]

\* part_001 lines 56-124
CalculateTrendMetrics(posts, totalPosts, nowDay) ==
    IF Len(posts) = 0
    THEN [support |-> RInt(0), velocity |-> RInt(0), momentum |-> RInt(0),
          trendScore |-> RInt(0)]
    ELSE
    LET n == Len(posts)
        support == Rat(n, totalPosts)
        sortedPosts == SortBy(posts, [i \in 1..n |-> posts[i].timestamp])
        last7d == Cardinality({i \in 1..n : nowDay - posts[i].timestamp <= 7})
        last30d == Cardinality({i \in 1..n : nowDay - posts[i].timestamp <= 30})
        recentRate == Rat(last7d, 7)
        olderRate == Rat(last30d - last7d, 23)
        velocity == IF RLt(RInt(0), olderRate)
                    THEN RDiv(RSub(recentRate, olderRate), olderRate)
                    ELSE recentRate
        midpoint == n \div 2
        recentPosts == SubSeq(sortedPosts, midpoint + 1, n)
        olderPosts == SubSeq(sortedPosts, 1, midpoint)
        engagementSum(ps) == SumSeq([i \in 1..Len(ps) |-> RawEngagement(ps[i])])
        recentEngagement == Rat(engagementSum(recentPosts), Len(recentPosts))
        \* 0 / 0 is NaN when olderPosts is empty, and NaN > 0 is false
        momentum == IF midpoint > 0 /\ engagementSum(olderPosts) > 0
                    THEN LET olderEngagement ==
                                 Rat(engagementSum(olderPosts), midpoint)
                         IN  RDiv(RSub(recentEngagement, olderEngagement),
                                  olderEngagement)
                    ELSE RInt(1)
        avgEngagement == Rat(engagementSum(posts), n)
        engagementScore == Log10Micro[RAdd(avgEngagement, RInt(1))] \div 5
        uniquePlatforms == Cardinality({posts[i].platform : i \in 1..n})
        uniqueTopics == Cardinality({posts[i].topic : i \in 1..n})
        diversityScore ==
            RDiv(RAdd(Rat(uniquePlatforms, 5), Rat(uniqueTopics, 12)), RInt(2))
        avgRecency ==
            SumSeq([i \in 1..n |->
                        ExpDecayMicro[nowDay - posts[i].timestamp + 1]]) \div n
    IN  [support |-> Rat(Round(RMul(support, RInt(10000))), 100),
         velocity |-> Round2(velocity),
         momentum |-> Round2(momentum),
         trendScore |-> CompositeScore(ToMicro(support), ToMicro(velocity),
                                       ToMicro(momentum), engagementScore,
                                       ToMicro(diversityScore), avgRecency)]

-----------------------------------------------------------------------------
(* Trend Aggregator: the extractTrends memo of part_001.                   *)

\* part_001 lines 248-258
ContentKeywords ==
    << "diwali", "gemini", "llama", "llama2", "llama-3", "gpt-5", "mistral",
       "chatgpt", "bts", "taylor swift", "beyoncé", "arijit singh",
       "bad bunny", "crypto", "bitcoin", "stocks", "markets", "ethereum",
       "isro", "chandrayaan", "space", "nasa", "spacex", "worldcup",
       "cricket", "kohli", "babar", "smith", "indvpak", "aamir khan",
       "ranveer singh", "bollywood", "ott", "netflix", "heatwave", "climate",
       "cop29", "sustainability", "apple", "m5", "oneplus", "gaming", "xbox",
       "ps5", "elections", "politics", "vote", "festival", "music" >>

\* part_001 line 212
EngagementThreshold == 50

\* part_001 lines 222-224
NormalizedTags(hashtags) ==
    LET raw == Split(hashtags, ",")
    IN  [i \in 1..Len(raw) |-> StripLeadingHash(ToLowerCase(Trim(raw[i])))]

KeyIndex(trendMap, key) ==
    IF \E i \in 1..Len(trendMap) : trendMap[i].keyword = key
    THEN CHOOSE i \in 1..Len(trendMap) : trendMap[i].keyword = key
    ELSE 0

\* part_001 lines 228-241 (checkMember FALSE) and 262-278 (checkMember TRUE)
AddToTrend(trendMap, key, post, checkMember) ==
    LET present == KeyIndex(trendMap, key) > 0
        tm == IF present THEN trendMap
              ELSE Append(trendMap, [keyword |-> key, posts |-> <<>>,
                                     totalEngagement |-> 0, topics |-> <<>>,
                                     platforms |-> <<>>])
        i == KeyIndex(tm, key)
        trend == tm[i]
    IN  IF checkMember
           /\ \E j \in 1..Len(trend.posts) : trend.posts[j].post_id = post.post_id
        THEN tm
        ELSE [tm EXCEPT ![i] =
                [keyword |-> trend.keyword,
                 posts |-> Append(trend.posts, post),
                 totalEngagement |-> trend.totalEngagement + RawEngagement(post),
                 topics |-> Dedup(Append(trend.topics, post.topic)),
                 platforms |-> Dedup(Append(trend.platforms, post.platform))]]

\* part_001 lines 226-243: tags.forEach over the tags that pass line 227
RECURSIVE HashtagPath(_, _, _)
HashtagPath(trendMap, post, tags) ==
    IF tags = <<>> THEN trendMap
    ELSE HashtagPath(AddToTrend(trendMap, Head(tags), post, FALSE),
                     post, Tail(tags))

\* part_001 lines 260-280: contentKeywords.forEach over the keywords that
\* pass line 261
RECURSIVE KeywordPath(_, _, _)
KeywordPath(trendMap, post, keywords) ==
    IF keywords = <<>> THEN trendMap
    ELSE KeywordPath(AddToTrend(trendMap, Head(keywords), post, TRUE),
                     post, Tail(keywords))

\* part_001 lines 214-281: the body of data.forEach
AggregatePost(trendMap, post) ==
    IF RawEngagement(post) < EngagementThreshold THEN trendMap
    ELSE LET tags == SelectSeq(NormalizedTags(post.hashtags),
                               LAMBDA tag : tag # "" /\ Len(tag) > 2)
             tagged == IF post.hashtags # ""
                       THEN HashtagPath(trendMap, post, tags)
                       ELSE trendMap
             content == ToLowerCase(post.content)
             found == SelectSeq(ContentKeywords,
                                LAMBDA keyword : Includes(content, keyword))
         IN  KeywordPath(tagged, post, found)

RECURSIVE AggregateAll(_, _)
AggregateAll(trendMap, posts) ==
    IF posts = <<>> THEN trendMap
    ELSE AggregateAll(AggregatePost(trendMap, Head(posts)), Tail(posts))

\* part_001 lines 200-303: the frontend extraction path
ExtractTrends(posts, nowDay) ==
    IF Len(posts) = 0 THEN <<>>
    ELSE
    LET trendMap == AggregateAll(<<>>, posts)
        kept == SelectSeq(trendMap, LAMBDA t : Len(t.posts) >= 2)
        scored == [i \in 1..Len(kept) |->
            LET trend == kept[i]
                m == CalculateTrendMetrics(trend.posts, Len(posts), nowDay)
            IN  [keyword |-> trend.keyword,
                 posts |-> trend.posts,
                 totalEngagement |-> trend.totalEngagement,
                 topics |-> trend.topics,
                 platforms |-> trend.platforms,
                 avgEngagement |-> Rat(trend.totalEngagement, Len(trend.posts)),
                 trendScore |-> m.trendScore,
                 support |-> m.support,
                 velocity |-> m.velocity,
                 momentum |-> m.momentum]]
    IN  SortBy(scored, [i \in 1..Len(scored) |-> -(scored[i].trendScore[1]
                            * (100 \div scored[i].trendScore[2]))])

MaxTrendPosts == 3

Post(id, platform, user, content, hashtags, topic, likes, shares, comments, ts) ==
    [post_id |-> id, platform |-> platform, user |-> user, content |-> content,
     hashtags |-> hashtags, topic |-> topic, likes |-> likes, shares |-> shares,
     comments |-> comments, timestamp |-> ts]

\* rows of the CSV; a missing field is the empty string
TrendPool ==
    { Post("p1", "Twitter", "u1", "Bitcoin rally", "#Bitcoin, #bitcoin",
           "Finance & Crypto", 60, 30, 9, 95),
      Post("p2", "Reddit", "u2", "crypto markets up", "#crypto",
           "Finance & Crypto", 900, 90, 9, 80),
      Post("p3", "YouTube", "u1", "bitcoin and crypto", "",
           "", 99, 0, 0, 40),
      Post("p4", "Twitter", "u3", "bitcoin dip", "#bitcoin",
           "Finance & Crypto", 30, 0, 0, 95),
      Post("", "Reddit", "u2", "Bitcoin to the moon", "#bitcoin",
           "Finance & Crypto", 900, 90, 9, 95),
      Post("p6", "Google", "u3", "cricket and bitcoin", " #Cricket",
           "Cricket", 60, 30, 9, 80) }

TrendInputs == UNION {[1..n -> TrendPool] : n \in 0..MaxTrendPosts}

\* the instants at which the memo may be computed
Clock == {100, 103}

InitTrends == /\ Unmounted /\ pc = "init" /\ data = <<>> /\ now = 0 /\ loading = TRUE
              /\ associationRules = <<>> /\ frequentItemsets = <<>>
              /\ sequentialPatterns = <<>> /\ previous = <<>> /\ temporalPatterns = <<>>
              /\ tallies = <<>> /\ trends = <<>>
              /\ values = <<>> /\ growthRates = <<>> /\ pattern = "none"
              /\ metrics = <<>> /\ trendScore = <<0, 1>>

\* part_001 lines 168-172 and the render that recomputes the memo
CsvComplete(rows, at) ==
    /\ pc = "init"
    /\ data' = rows
    /\ loading' = FALSE
    /\ now' = at
    /\ trends' = ExtractTrends(rows, at)
    /\ pc' = "trends"
    /\ UNCHANGED <<loader, associationRules, frequentItemsets, sequentialPatterns,
                   previous, temporalPatterns, tallies, values, growthRates,
                   pattern, metrics, trendScore>>

\* part_001 lines 885-888: the Trend after a TrendCard has rendered it;
\* Array.prototype.sort sorts trend.posts in place
TrendCard(trend) ==
    [trend EXCEPT !.posts =
        SortBy(trend.posts,
               [i \in 1..Len(trend.posts) |-> -RawEngagement(trend.posts[i])])]

\* part_001 lines 411 and 571-576: the Trending Now tab renders a TrendCard
\* for each of the first 20 Trends of the memo
RenderTrendingFeed ==
    /\ pc = "trends"
    /\ trends' = [t \in 1..Len(trends) |->
                     IF t <= 20 THEN TrendCard(trends[t]) ELSE trends[t]]
    /\ UNCHANGED <<loader, pc, data, now, loading, associationRules, frequentItemsets,
                   sequentialPatterns, previous, temporalPatterns, tallies,
                   values, growthRates, pattern, metrics, trendScore>>

NextTrends ==
    \/ \E rows \in TrendInputs, at \in Clock : CsvComplete(rows, at)
    \/ RenderTrendingFeed

SpecTrends == InitTrends /\ [][NextTrends]_vars

\* a record with its id, its topic and its timestamp
Eligible(p) == p.post_id # "" /\ p.topic # ""

\* C1: no Trend's member list holds two entries with the same post id,
\* also when a post reaches a key through a hashtag and a keyword or through
\* a repeated hashtag.
C1_NoDuplicateMember ==
    \A t \in 1..Len(trends) :
        \A i, j \in 1..Len(trends[t].posts) :
            trends[t].posts[i].post_id = trends[t].posts[j].post_id => i = j

\* C9: with zero eligible posts every output is empty.
C9_EmptyCorpusEmptyOutputs ==
    (pc = "trends" /\ \A i \in 1..Len(data) : ~Eligible(data[i]))
        => trends = <<>>

-----------------------------------------------------------------------------
(* The composite score as a function of the six sub-metrics.               *)

\* sub-metric values: support, velocity, momentum, engagementScore,
\* diversityScore, avgRecency
MetricInputs ==
    { <<s, v, m, e, d, r>> :
        s \in {RInt(0), Rat(1, 10), Rat(1, 3), RInt(1)},
        v \in {RInt(0), RInt(-1), Rat(1, 7), Rat(3, 2)},
        m \in {RInt(0), RInt(1), Rat(-1, 2)},
        e \in {RInt(0), Rat(2, 5)},
        d \in {RInt(0), Rat(17, 120)},
        r \in {RInt(0), Rat(1, 2)} }

InitScore == /\ Unmounted /\ pc = "metrics" /\ metrics \in MetricInputs
             /\ trendScore = <<0, 1>> /\ data = <<>> /\ now = 0
             /\ loading = TRUE /\ associationRules = <<>>
             /\ frequentItemsets = <<>> /\ sequentialPatterns = <<>>
             /\ previous = <<>> /\ temporalPatterns = <<>>
              /\ tallies = <<>> /\ trends = <<>> /\ values = <<>>
             /\ growthRates = <<>> /\ pattern = "none"

\* part_001 lines 109-122
ScoreTrend ==
    /\ pc = "metrics"
    /\ trendScore' = CompositeScore(ToMicro(metrics[1]), ToMicro(metrics[2]),
                                    ToMicro(metrics[3]), ToMicro(metrics[4]),
                                    ToMicro(metrics[5]), ToMicro(metrics[6]))
    /\ pc' = "scored"
    /\ UNCHANGED <<loader, data, now, loading, associationRules, frequentItemsets,
                   sequentialPatterns, previous, temporalPatterns, tallies,
                   trends, values, growthRates,
                   pattern, metrics>>

NextScore == ScoreTrend

SpecScore == InitScore /\ [][NextScore]_vars

\* C10: the composite score is 100*support + 50*velocity + 30*momentum
\* + 40*engagementScore + 20*diversityScore + 30*recencyScore with support
\* a fraction, rounded to 2 decimals; support 0.1 with every other
\* sub-metric 0 scores exactly 10.0.
C10_WeightedSum ==
    pc = "scored" =>
        /\ trendScore =
             Round2(RSum(<<RMul(RInt(100), metrics[1]), RMul(RInt(50), metrics[2]),
                           RMul(RInt(30), metrics[3]), RMul(RInt(40), metrics[4]),
                           RMul(RInt(20), metrics[5]), RMul(RInt(30), metrics[6])>>))
        /\ metrics = <<Rat(1, 10), RInt(0), RInt(0), RInt(0), RInt(0), RInt(0)>>
              => trendScore = RInt(10)

C10_Witness ==
    /\ pc = "scored"
    /\ metrics = <<Rat(1, 10), RInt(0), RInt(0), RInt(0), RInt(0), RInt(0)>>
    /\ trendScore = RInt(10)

-----------------------------------------------------------------------------
(* Association Miner: PatternMining of part_000.                           *)

\* part_000 lines 112-114
CalculateEngagement(post) == post.likes + post.shares * 2 + post.comments * 3

\* part_000 lines 116-122
ExtractHashtags(hashtagStr) ==
    IF hashtagStr = "" THEN <<>>
    ELSE LET raw == Split(hashtagStr, ",")
             cleaned == [i \in 1..Len(raw) |-> RemoveFirstHash(Trim(raw[i]))]
         IN  SelectSeq(cleaned, LAMBDA h : Len(h) > 0)

\* the matches of /\b[A-Z][a-z]+\b/g: an upper-case letter at a word
\* boundary, the lower-case run after it, and a word boundary behind it
CapitalizedWords(content) ==
    LET n == Len(content)
        runEnd(i) == CHOOSE j \in i..n :
                        /\ \A k \in (i + 1)..j : IsLower(Char(content, k))
                        /\ (j = n \/ ~IsLower(Char(content, j + 1)))
        starts == SelectSeq([i \in 1..n |-> i], LAMBDA i :
                    /\ IsUpper(Char(content, i))
                    /\ (i = 1 \/ ~IsWordChar(Char(content, i - 1)))
                    /\ runEnd(i) > i
                    /\ (runEnd(i) = n \/ ~IsWordChar(Char(content, runEnd(i) + 1))))
    IN  [k \in 1..Len(starts) |-> SubSeq(content, starts[k], runEnd(starts[k]))]

\* part_000 lines 124-128
ExtractKeywords(content) ==
    IF content = "" THEN <<>> ELSE Take(CapitalizedWords(content), 2)

\* part_000 lines 143-150: the item Set of a post, in insertion order
ItemsOf(post) ==
    Dedup(<<post.topic>> \o Take(ExtractHashtags(post.hashtags), 2)
            \o ExtractKeywords(post.content))

\* part_000 line 153: [a, b].sort().join("|")
PairKey(a, b) == IF StrLess(b, a) THEN b \o "|" \o a ELSE a \o "|" \o b

\* the inner loop started at j = i
PairKeysOfSelfPairs(items) ==
    LET n == Len(items)
        ij == SelectSeq([k \in 1..(n * n) |-> <<((k - 1) \div n) + 1, ((k - 1) % n) + 1>>],
                        LAMBDA p : p[1] <= p[2])
    IN  [k \in 1..Len(ij) |-> PairKey(items[ij[k][1]], items[ij[k][2]])]

\* part_000 lines 151-153: the pair keys of a post in loop order
PairKeysOf(items) ==
    LET n == Len(items)
        ij == SelectSeq([k \in 1..(n * n) |-> <<((k - 1) \div n) + 1, ((k - 1) % n) + 1>>],
                        LAMBDA p : p[1] < p[2])
    IN  [k \in 1..Len(ij) |-> PairKey(items[ij[k][1]], items[ij[k][2]])]

\* the pairs with up to 6 posts stored
ItemPairsSixPosts(posts) ==
    LET topical == SelectSeq(posts, LAMBDA post : post.topic # "")
        entries(occurrences, pairs) ==
            [k \in 1..Len(pairs) |->
                LET own == SelectSeq(occurrences, LAMBDA o : o.key = pairs[k])
                IN  [key |-> pairs[k],
                     count |-> Len(own),
                     topics |-> Dedup([o \in 1..Len(own) |-> own[o].post.topic]),
                     posts |-> [o \in 1..Min(6, Len(own)) |-> own[o].post]]]
        keyed(occurrences) ==
            entries(occurrences,
                    Dedup([o \in 1..Len(occurrences) |-> occurrences[o].key]))
    IN  keyed(Flatten([i \in 1..Len(topical) |->
            LET keys == PairKeysOf(ItemsOf(topical[i]))
            IN  [j \in 1..Len(keys) |-> [key |-> keys[j], post |-> topical[i]]]]))

\* part_000 lines 137-165: the itemPairs map after data.forEach, in
\* insertion order; every pass of the inner loop is one occurrence of a key,
\* adds 1 to its count, adds the topic, and pushes the post up to 5 posts
ItemPairs(posts) ==
    LET topical == SelectSeq(posts, LAMBDA post : post.topic # "")
        entries(occurrences, pairs) ==
            [k \in 1..Len(pairs) |->
                LET own == SelectSeq(occurrences, LAMBDA o : o.key = pairs[k])
                IN  [key |-> pairs[k],
                     count |-> Len(own),
                     topics |-> Dedup([o \in 1..Len(own) |-> own[o].post.topic]),
                     posts |-> [o \in 1..Min(5, Len(own)) |-> own[o].post]]]
        keyed(occurrences) ==
            entries(occurrences,
                    Dedup([o \in 1..Len(occurrences) |-> occurrences[o].key]))
    IN  keyed(Flatten([i \in 1..Len(topical) |->
            LET keys == PairKeysOf(ItemsOf(topical[i]))
            IN  [j \in 1..Len(keys) |-> [key |-> keys[j], post |-> topical[i]]]]))

\* the posts that mention an item in their content
ContextualPostsByContent(posts, item1, item2) ==
    Len(SelectSeq(posts, LAMBDA p :
        \/ (p.content # "" /\ Includes(ToLowerCase(p.content), ToLowerCase(item1)))
        \/ (p.content # "" /\ Includes(ToLowerCase(p.content), ToLowerCase(item2)))))

\* part_000 lines 177-184
ContextualPosts(posts, item1, item2) ==
    Len(SelectSeq(posts, LAMBDA p :
        \/ (p.content # "" /\ Includes(ToLowerCase(p.content), ToLowerCase(item1)))
        \/ (p.content # "" /\ Includes(ToLowerCase(p.content), ToLowerCase(item2)))
        \/ (p.topic # "" /\ Includes(p.topic, item1))
        \/ (p.topic # "" /\ Includes(p.topic, item2))
        \/ \E h \in Range(ExtractHashtags(p.hashtags)) : h = item1 \/ h = item2))

Week(ts) == ts \div 7

\* part_000 lines 198-251; random is the value Math.random() returns
GrowthRateOf(sorted, random) ==
    IF Len(sorted) >= 2
    THEN LET weekOf == [i \in 1..Len(sorted) |-> Week(sorted[i].timestamp)]
             weeks == SortBy(Dedup(weekOf), Dedup(weekOf))
             timeGroups(w) == Cardinality({i \in 1..Len(sorted) : weekOf[i] = w})
         IN  IF Len(weeks) >= 2
             THEN LET firstWeekCount == timeGroups(weeks[1])
                      lastWeekCount == timeGroups(weeks[Len(weeks)])
                      middleWeekCount == timeGroups(weeks[Len(weeks) \div 2 + 1])
                      rawGrowth == Rat((lastWeekCount - firstWeekCount) * 100,
                                       firstWeekCount)
                  IN  IF firstWeekCount > 0
                      THEN IF RLt(RInt(0), rawGrowth)
                           THEN LET g == Round(RMin(RInt(100),
                                          RAdd(RInt(50), RDiv(rawGrowth, RInt(4)))))
                                IN  IF middleWeekCount > firstWeekCount
                                       /\ lastWeekCount > middleWeekCount
                                    THEN Min(100, g + 15)
                                    ELSE g
                           ELSE Round(RMax(RInt(-50), RDiv(rawGrowth, RInt(2))))
                      ELSE IF lastWeekCount > 0
                           THEN Min(75, 30 + lastWeekCount * 5)
                           ELSE 0
             ELSE LET baseGrowth == RAdd(RInt(10), RMul(random, RInt(20)))
                  IN  Round(IF Len(sorted) > 5 THEN baseGrowth
                            ELSE RMul(baseGrowth, Rat(1, 2)))
    ELSE Round(RMul(random, RInt(15)))

\* the cutoffs taken inclusively
TrendDirectionInclusive(growthRate) ==
    IF growthRate >= 50 THEN "Rising Fast"
    ELSE IF growthRate >= 15 THEN "Growing"
    ELSE IF growthRate <= -50 THEN "Fading"
    ELSE IF growthRate <= -15 THEN "Declining"
    ELSE "Stable"

\* part_000 lines 253-257
TrendDirection(growthRate) ==
    \* the labels without their leading emoji
    IF growthRate > 50 THEN "Rising Fast"
    ELSE IF growthRate > 15 THEN "Growing"
    ELSE IF growthRate < -50 THEN "Fading"
    ELSE IF growthRate < -15 THEN "Declining"
    ELSE "Stable"

\* part_000 lines 259-269
TopPlatforms(posts) ==
    LET seen == Dedup([i \in 1..Len(posts) |-> posts[i].platform])
        counts == [k \in 1..Len(seen) |->
                      Cardinality({i \in 1..Len(posts) : posts[i].platform = seen[k]})]
    IN  Take(SortBy(seen, [k \in 1..Len(seen) |-> -counts[k]]), 3)

\* part_000 line 172
MinPairCount == 8

\* part_000 lines 172-290: the rule of one surviving pair
RuleOf(pairData, posts, random) ==
    LET items == Split(pairData.key, "|")
        item1 == items[1]
        item2 == items[2]
        score(contextualPosts) ==
            IF contextualPosts > 0
            THEN Min(85, Round(Rat(pairData.count * 100, contextualPosts)))
            ELSE Round(Rat(pairData.count * 100 * 15, Len(posts)))
        popularityScore == score(ContextualPosts(posts, item1, item2))
        sorted == SortBy(pairData.posts,
                         [i \in 1..Len(pairData.posts) |-> pairData.posts[i].timestamp])
        growthRate == GrowthRateOf(sorted, random)
    IN  [rule |-> "When discussing " \o item1 \o ", users often mention " \o item2,
         antecedent |-> <<item1>>,
         consequent |-> <<item2>>,
         trend_strength |-> Rat(pairData.count, Len(posts)),
         popularity_score |-> popularityScore,
         occurrence_count |-> pairData.count,
         growth_rate |-> growthRate,
         engagement_impact |->
             Round(Rat(SumSeq([i \in 1..Len(sorted) |-> CalculateEngagement(sorted[i])]),
                       Len(sorted))),
         platforms |-> TopPlatforms(sorted),
         trend_direction |-> TrendDirection(growthRate),
         examples |-> [i \in 1..Min(2, Len(sorted)) |->
                          [post_id |-> sorted[i].post_id,
                           content |-> Take(sorted[i].content, 120) \o "...",
                           engagement_score |-> CalculateEngagement(sorted[i])]]]

\* the threshold off by one
SurvivingPairsOffByOne(posts) ==
    SelectSeq(ItemPairs(posts), LAMBDA pairData : ~(pairData.count < MinPairCount - 1))

\* part_000 line 172: the pairs that survive, in map order
SurvivingPairs(posts) ==
    SelectSeq(ItemPairs(posts), LAMBDA pairData : ~(pairData.count < MinPairCount))

\* the sort in ascending order of the count
ByCountAscending(rules) ==
    SortBy(rules, [i \in 1..Len(rules) |-> rules[i].occurrence_count])

\* sort((a, b) => b.occurrence_count - a.occurrence_count)
ByCountDescending(rules) ==
    SortBy(rules, [i \in 1..Len(rules) |-> -rules[i].occurrence_count])

\* part_000 lines 292-329; primaryTopic[i] is the first topic of rules[i]
DiversifyRules(rules, primaryTopic) ==
    LET topics == Dedup(primaryTopic)
        ofTopic(topic) == SelectSeq([i \in 1..Len(rules) |-> i],
                                    LAMBDA i : primaryTopic[i] = topic)
        topicRules(topic) ==
            ByCountDescending([k \in 1..Len(ofTopic(topic)) |->
                                   rules[ofTopic(topic)[k]]])
        firstPass == [k \in 1..Len(topics) |-> topicRules(topics[k])[1]]
        RECURSIVE concat(_)
        concat(k) == IF k = 0 THEN <<>>
                     ELSE concat(k - 1) \o topicRules(topics[k])
        allRules == ByCountDescending(concat(Len(topics)))
        RECURSIVE fill(_, _)
        fill(diverseRules, k) ==
            IF k > Len(allRules) THEN diverseRules
            ELSE fill(IF Len(diverseRules) < 50
                         /\ \A j \in 1..Len(diverseRules) :
                                diverseRules[j].rule # allRules[k].rule
                      THEN Append(diverseRules, allRules[k])
                      ELSE diverseRules,
                      k + 1)
    IN  Take(fill(firstPass, 1), 30)

\* part_000 lines 130-330; random[i] is the value Math.random() returns
\* while the i-th surviving pair is processed
MineAssociationRules(posts, random) ==
    LET rulesOf(pairs) ==
            DiversifyRules([i \in 1..Len(pairs) |-> RuleOf(pairs[i], posts, random[i])],
                           [i \in 1..Len(pairs) |-> pairs[i].topics[1]])
    IN  rulesOf(SurvivingPairs(posts))

-----------------------------------------------------------------------------
(* Itemset Miner: mineFrequentItemsets of part_000.                        *)

\* Array.prototype.sort() of strings
SortStrings(s) ==
    LET elems == Tuple(s)
    IN  SortBy(elems, [i \in 1..Len(elems) |->
            Cardinality({j \in 1..Len(elems) : StrLess(elems[j], elems[i])})])

\* part_000 lines 345-351
ItemsetOf(post) ==
    SortStrings(Dedup(<<post.topic>> \o Take(ExtractHashtags(post.hashtags), 2)))

\* part_000 lines 339-361: the itemsetCounts map after data.forEach, in
\* insertion order
ItemsetCounts(posts) ==
    LET counted == SelectSeq(posts, LAMBDA post :
                       post.topic # "" /\ ~(Len(ItemsetOf(post)) < 2))
        entries(keyOf, keys) ==
            [k \in 1..Len(keys) |->
                LET own == SelectSeq([i \in 1..Len(keyOf) |-> i],
                                     LAMBDA i : keyOf[i] = keys[k])
                IN  [key |-> keys[k],
                     count |-> Len(own),
                     topics |-> Dedup([o \in 1..Len(own) |-> counted[own[o]].topic])]]
        keyed(keyOf) == entries(keyOf, Dedup(keyOf))
    IN  keyed(Tuple([i \in 1..Len(counted) |-> Join(ItemsetOf(counted[i]))]))

\* the top 3 itemsets of a topic kept
MineFrequentItemsetsThreePerTopic(posts) ==
    LET itemsetOf(d) ==
            [items |-> Split(d.key, "|"),
             trend_strength |-> Rat(d.count, Len(posts)),
             popularity_score |->
                 Min(80, Round(Rat(d.count * 100 * 12, Len(posts)))),
             occurrence_count |-> d.count,
             trend_direction |-> "Stable"]
        diversify(itemsets, primaryTopic, topics) ==
            LET topicItemsets(topic) ==
                    LET at == SelectSeq([i \in 1..Len(itemsets) |-> i],
                                        LAMBDA i : primaryTopic[i] = topic)
                    IN  ByCountDescending([k \in 1..Len(at) |-> itemsets[at[k]]])
                RECURSIVE diverse(_)
                diverse(k) == IF k = 0 THEN <<>>
                              ELSE diverse(k - 1) \o Take(topicItemsets(topics[k]), 3)
            IN  Take(ByCountDescending(diverse(Len(topics))), 24)
        byTopic(itemsets, primaryTopic) ==
            diversify(itemsets, primaryTopic, Dedup(primaryTopic))
        mined(kept) ==
            byTopic([i \in 1..Len(kept) |-> itemsetOf(kept[i])],
                    [i \in 1..Len(kept) |-> kept[i].topics[1]])
    IN  mined(SelectSeq(ItemsetCounts(posts), LAMBDA d : ~(d.count < 8)))

\* part_000 lines 363-401
MineFrequentItemsets(posts) ==
    LET itemsetOf(d) ==
            [items |-> Split(d.key, "|"),
             trend_strength |-> Rat(d.count, Len(posts)),
             popularity_score |->
                 Min(80, Round(Rat(d.count * 100 * 12, Len(posts)))),
             occurrence_count |-> d.count,
             trend_direction |-> "Stable"]
        diversify(itemsets, primaryTopic, topics) ==
            LET topicItemsets(topic) ==
                    LET at == SelectSeq([i \in 1..Len(itemsets) |-> i],
                                        LAMBDA i : primaryTopic[i] = topic)
                    IN  ByCountDescending([k \in 1..Len(at) |-> itemsets[at[k]]])
                RECURSIVE diverse(_)
                diverse(k) == IF k = 0 THEN <<>>
                              ELSE diverse(k - 1) \o Take(topicItemsets(topics[k]), 2)
            IN  Take(ByCountDescending(diverse(Len(topics))), 24)
        byTopic(itemsets, primaryTopic) ==
            diversify(itemsets, primaryTopic, Dedup(primaryTopic))
        mined(kept) ==
            byTopic([i \in 1..Len(kept) |-> itemsetOf(kept[i])],
                    [i \in 1..Len(kept) |-> kept[i].topics[1]])
    IN  mined(SelectSeq(ItemsetCounts(posts), LAMBDA d : ~(d.count < 8)))

-----------------------------------------------------------------------------
(* Sequential Miner: mineSequentialPatterns of part_000.                   *)

\* part_000 lines 409-419: the users in Map order
Users(posts) ==
    LET valid == SelectSeq(posts, LAMBDA p : ~(p.user = "" \/ p.topic = ""))
    IN  Dedup([i \in 1..Len(valid) |-> valid[i].user])

\* part_000 lines 409-427: the sorted sequence of one user
UserSequence(posts, user) ==
    LET own == SelectSeq(posts, LAMBDA p :
                   ~(p.user = "" \/ p.topic = "") /\ p.user = user)
        sequence == [i \in 1..Len(own) |->
                        [topic |-> own[i].topic, timestamp |-> own[i].timestamp]]
    IN  SortBy(sequence, [i \in 1..Len(sequence) |-> sequence[i].timestamp])

\* transitions recorded without comparing the two topics
TransitionsAnyTopic(sorted) ==
    [k \in 1..(Len(sorted) - 1) |->
        [seq |-> sorted[k].topic \o "|" \o sorted[k + 1].topic,
         days |-> sorted[k + 1].timestamp - sorted[k].timestamp]]

\* part_000 lines 428-443: the transitions of one sorted sequence, in order
Transitions(sorted) ==
    LET at == SelectSeq([i \in 1..(Len(sorted) - 1) |-> i],
                        LAMBDA i : sorted[i].topic # sorted[i + 1].topic)
    IN  [k \in 1..Len(at) |->
            [seq |-> sorted[at[k]].topic \o "|" \o sorted[at[k] + 1].topic,
             days |-> sorted[at[k] + 1].timestamp - sorted[at[k]].timestamp]]

\* part_000 lines 421-444: every transition, user by user
AllTransitions(posts, users) ==
    Flatten([u \in 1..Len(users) |-> Transitions(UserSequence(posts, users[u]))])

\* part_000 lines 421-444: sequenceCounts and sequenceTimings in Map order
SequenceCounts(posts) ==
    LET entries(all, seqs) ==
            [k \in 1..Len(seqs) |->
                LET own == SelectSeq(all, LAMBDA t : t.seq = seqs[k])
                IN  [seq |-> seqs[k], count |-> Len(own),
                     timings |-> [i \in 1..Len(own) |-> own[i].days]]]
        keyed(all) == entries(all, Dedup([i \in 1..Len(all) |-> all[i].seq]))
    IN  keyed(AllTransitions(posts, Users(posts)))

\* part_000 lines 459-467
DurationBand(timings) ==
    IF Len(timings) > 0
    THEN LET avgDays == Rat(SumSeq(timings), Len(timings))
         IN  IF RLt(avgDays, RInt(1)) THEN "< 1 day"
             ELSE IF RLt(avgDays, RInt(3)) THEN "1-3 days"
             ELSE IF RLt(avgDays, RInt(7)) THEN "3-7 days"
             ELSE IF RLt(avgDays, RInt(14)) THEN "1-2 weeks"
             ELSE "2+ weeks"
    ELSE "1-7 days"

\* the transitions seen twice kept
MineSequentialPatternsFromTwo(posts) ==
    LET totalUsers == Len(Users(posts))
        patternOf(c) ==
            LET topicPair == Split(c.seq, "|")
                baseStrength == Rat(c.count * 100, Max(totalUsers, 20))
            IN  [sequence |-> <<topicPair[1], topicPair[2]>>,
                 pattern_strength |->
                     Min(85, Round(RAdd(RInt(20), RMul(baseStrength, RInt(15))))),
                 occurrence_count |-> c.count,
                 avg_duration |-> DurationBand(c.timings)]
        patterns(kept) == [i \in 1..Len(kept) |-> patternOf(kept[i])]
    IN  Take(ByCountDescending(
            patterns(SelectSeq(SequenceCounts(posts), LAMBDA c : ~(c.count < 2)))), 15)

\* part_000 lines 446-480
MineSequentialPatterns(posts) ==
    LET totalUsers == Len(Users(posts))
        patternOf(c) ==
            LET topicPair == Split(c.seq, "|")
                baseStrength == Rat(c.count * 100, Max(totalUsers, 20))
            IN  [sequence |-> <<topicPair[1], topicPair[2]>>,
                 pattern_strength |->
                     Min(85, Round(RAdd(RInt(20), RMul(baseStrength, RInt(15))))),
                 occurrence_count |-> c.count,
                 avg_duration |-> DurationBand(c.timings)]
        patterns(kept) == [i \in 1..Len(kept) |-> patternOf(kept[i])]
    IN  Take(ByCountDescending(
            patterns(SelectSeq(SequenceCounts(posts), LAMBDA c : ~(c.count < 3)))), 15)

-----------------------------------------------------------------------------
(* PatternMining: the load effect and its complete callback.               *)

MaxFree == 4
MaxAlternating == 16

MiningPool ==
    { Post("m1", "Twitter", "u1", "Halo returns", "#xbox", "Gaming", 10, 2, 1, 10),
      Post("m2", "Reddit", "u2", "Halo is fun", "", "Gaming", 5, 0, 0, 30),
      Post("m3", "Reddit", "u1", "great match", "#xbox", "Cricket", 7, 1, 0, 20),
      Post("", "YouTube", "u2", "", " #xbox", "Gaming", 3, 0, 2, 12),
      Post("m5", "Twitter", "u2", "Halo", "#xbox", "", 4, 4, 0, 30),
      Post("m6", "Google", "u2", "", "", "Cricket", 1, 0, 0, 30) }

\* a, b, a, b, ... of length n
Alternating(a, b, n) == [i \in 1..n |-> IF i % 2 = 1 THEN a ELSE b]

MiningInputs ==
    UNION {[1..n -> MiningPool] : n \in 0..MaxFree}
    \cup {Alternating(a, b, n) : a \in MiningPool, b \in MiningPool,
                                 n \in 0..MaxAlternating}

\* values Math.random() may return
RandomDraws == {RInt(0), Rat(99, 100)}

InitMining == /\ Unmounted /\ pc = "init" /\ data = <<>> /\ now = 0 /\ loading = TRUE
              /\ associationRules = <<>> /\ frequentItemsets = <<>>
              /\ sequentialPatterns = <<>> /\ previous = <<>> /\ temporalPatterns = <<>>
              /\ tallies = <<>> /\ trends = <<>>
              /\ values = <<>> /\ growthRates = <<>> /\ pattern = "none"
              /\ metrics = <<>> /\ trendScore = <<0, 1>>

\* part_000 lines 86-97: the complete callback of a load of rows; the
\* component loads once per mount, and a remount loads the same file again.
\* random[i] is what Math.random() returns for the i-th surviving pair
Complete(rows) ==
    /\ pc \in {"init", "mined"}
    /\ pc = "mined" => rows = data
    /\ data' = rows
    /\ frequentItemsets' = MineFrequentItemsets(rows)
    /\ sequentialPatterns' = MineSequentialPatterns(rows)
    /\ loading' = FALSE
    /\ previous' = IF pc = "init" THEN <<>>
                   ELSE <<associationRules, frequentItemsets, sequentialPatterns>>
    /\ pc' = IF pc = "init" THEN "mined" ELSE "mined again"
    /\ UNCHANGED <<loader, now, trends, values, growthRates, pattern, metrics, trendScore,
                   temporalPatterns, tallies>>
    /\ \E random \in [1..Len(SurvivingPairs(rows)) -> RandomDraws] :
          associationRules' = MineAssociationRules(rows, random)

\* the rows the loader parses: any file at the first load, the file already
\* loaded at a later one
Fetched == IF pc = "init" THEN MiningInputs ELSE {data}

NextMining == \E rows \in Fetched : Complete(rows)

SpecMining == InitMining /\ [][NextMining]_vars

\* the item set of data[i] holds both a and b, and data[i] has a topic
HoldsBoth(i, a, b) ==
    /\ data[i].topic # ""
    /\ a \in Range(ItemsOf(data[i]))
    /\ b \in Range(ItemsOf(data[i]))

Grouped == {i \in 1..Len(data) : data[i].user # "" /\ data[i].topic # ""}

\* data[i] precedes data[j] in their author's sequence: earlier timestamp,
\* or the same timestamp and earlier in the input
Precedes(i, j) ==
    /\ data[i].user = data[j].user
    /\ \/ data[i].timestamp < data[j].timestamp
       \/ (data[i].timestamp = data[j].timestamp /\ i < j)

\* data[i] and data[j] are consecutive posts of one author
Consecutive(i, j) ==
    /\ Precedes(i, j)
    /\ ~\E k \in Grouped : Precedes(i, k) /\ Precedes(k, j)

\* the number of consecutive pairs of one author with topics a then b
ConsecutivePairs(a, b) ==
    Cardinality({p \in Grouped \X Grouped :
                    /\ Consecutive(p[1], p[2])
                    /\ data[p[1]].topic = a
                    /\ data[p[2]].topic = b})

\* the miner's tally of the transition a -> b
TallyOf(a, b) ==
    LET counts == SequenceCounts(data)
        own == SelectSeq(counts, LAMBDA c : c.seq = a \o "|" \o b)
    IN  IF own = <<>> THEN 0 ELSE own[1].count

C5_TwoAuthors ==
    /\ pc = "mined"
    /\ Cardinality({data[i].user : i \in Grouped}) = 2
    /\ Len(data) = 4
    /\ \E i, j \in Grouped : i < j /\ Precedes(j, i)
    /\ TallyOf("Gaming", "Cricket") = 2
    /\ TallyOf("Cricket", "Gaming") = 0

\* every post has the one topic and no post has a hashtag
OneTopicNoHashtags ==
    /\ data # <<>>
    /\ \A i \in 1..Len(data) :
          /\ data[i].topic # ""
          /\ data[i].topic = data[1].topic
          /\ ExtractHashtags(data[i].hashtags) = <<>>

\* C6 as stated: a corpus in which all posts share one topic and no post has
\* a hashtag yields zero association rules and zero itemsets, whatever the
\* text of the posts and the size of the corpus.
C6_NoRulesNoItemsets ==
    (pc # "init" /\ OneTopicNoHashtags)
        => associationRules = <<>> /\ frequentItemsets = <<>>

\* C6 amended: such a corpus yields zero itemsets whatever the text, and
\* zero association rules when no post's text holds a capitalized word
\* (an upper-case letter followed by lower-case letters).
C6_NoRulesWithoutKeywords ==
    (pc # "init" /\ OneTopicNoHashtags)
        => /\ frequentItemsets = <<>>
           /\ (\A i \in 1..Len(data) : ExtractKeywords(data[i].content) = <<>>)
                 => associationRules = <<>>

\* eight or more posts of one topic, no hashtag and no capitalized word
C6_Witness ==
    /\ pc = "mined"
    /\ OneTopicNoHashtags
    /\ Len(data) >= 8
    /\ \A i \in 1..Len(data) : ExtractKeywords(data[i].content) = <<>>
    /\ associationRules = <<>>
    /\ frequentItemsets = <<>>

\* C7: a second run on the same unchanged post collection yields the same
\* ranked outputs as the first, element for element and field for field.
C7_RerunIdentical ==
    pc = "mined again" =>
        previous = <<associationRules, frequentItemsets, sequentialPatterns>>

\* the records of the batch that have their id and their topic
EligibleData == SelectSeq(data, Eligible)

\* C8: a record missing its id or its topic adds to no pair, itemset or
\* transition tally, and the remaining records are processed as if it were
\* absent.
C8_IneligibleSkipped ==
    pc # "init" =>
        /\ [i \in 1..Len(ItemPairs(data)) |->
               <<ItemPairs(data)[i].key, ItemPairs(data)[i].count>>]
             = [i \in 1..Len(ItemPairs(EligibleData)) |->
                   <<ItemPairs(EligibleData)[i].key, ItemPairs(EligibleData)[i].count>>]
        /\ ItemsetCounts(data) = ItemsetCounts(EligibleData)
        /\ [i \in 1..Len(SequenceCounts(data)) |->
               <<SequenceCounts(data)[i].seq, SequenceCounts(data)[i].count>>]
             = [i \in 1..Len(SequenceCounts(EligibleData)) |->
                   <<SequenceCounts(EligibleData)[i].seq,
                     SequenceCounts(EligibleData)[i].count>>]

-----------------------------------------------------------------------------
(* The engagement a Trend accumulates.                                     *)

\* C11: for each post admitted to a Trend the amount added to the Trend's
\* total is likes + 2*shares + 3*comments, so a Trend's total is the sum of
\* that weighted engagement over its members.
C11_TotalIsWeightedSum ==
    \A t \in 1..Len(trends) :
        trends[t].totalEngagement =
            SumSeq([i \in 1..Len(trends[t].posts) |->
                        CalculateEngagement(trends[t].posts[i])])

-----------------------------------------------------------------------------
(* TrendAnalysis: processTemporalPatterns and the load that calls it.      *)

\* TrendAnalysis.tsx line 152
TemporalThreshold == 20

\* TrendAnalysis.tsx lines 188-193
TemporalKeywords ==
    << "diwali", "gemini", "llama", "gpt", "mistral", "chatgpt", "ai",
       "crypto", "bitcoin", "stocks", "isro", "chandrayaan", "space",
       "cricket", "kohli", "bollywood", "climate", "elections", "politics",
       "music", "bts", "taylor", "gaming", "xbox", "ps5", "ott", "netflix" >>

\* TrendAnalysis.tsx line 160; a timestamp is a day number
WeekNum(ts) == ts \div 7

\* TrendAnalysis.tsx lines 163-165
TemporalTags(hashtags) ==
    LET raw == Split(hashtags, ",")
    IN  [i \in 1..Len(raw) |-> StripLeadingHash(ToLowerCase(Trim(raw[i])))]

\* TrendAnalysis.tsx lines 181 and 209: timeSeries.set(weekNum, old + engagement)
SetWeek(timeSeries, weekNum, engagement) ==
    IF \E k \in 1..Len(timeSeries) : timeSeries[k].week = weekNum
    THEN [k \in 1..Len(timeSeries) |->
             IF timeSeries[k].week = weekNum
             THEN [week |-> weekNum, value |-> timeSeries[k].value + engagement]
             ELSE timeSeries[k]]
    ELSE Append(timeSeries, [week |-> weekNum, value |-> engagement])

\* the bucket of the week raised for a rejected member too
AddToTemporalBucketAlways(trendMap, key, post) ==
    LET added(tm, i) ==
            IF \E j \in 1..Len(tm[i].posts) : tm[i].posts[j].post_id = post.post_id
            THEN [tm EXCEPT ![i] =
                    [keyword |-> tm[i].keyword,
                     posts |-> tm[i].posts,
                     totalEngagement |-> tm[i].totalEngagement,
                     timeSeries |-> SetWeek(tm[i].timeSeries, WeekNum(post.timestamp),
                                            RawEngagement(post))]]
            ELSE [tm EXCEPT ![i] =
                    [keyword |-> tm[i].keyword,
                     posts |-> Append(tm[i].posts, post),
                     totalEngagement |-> tm[i].totalEngagement + RawEngagement(post),
                     timeSeries |-> SetWeek(tm[i].timeSeries, WeekNum(post.timestamp),
                                            RawEngagement(post))]]
        fetched(tm) == added(tm, KeyIndex(tm, key))
    IN  fetched(IF KeyIndex(trendMap, key) > 0 THEN trendMap
                ELSE Append(trendMap, [keyword |-> key, posts |-> <<>>,
                                       totalEngagement |-> 0, timeSeries |-> <<>>]))

\* TrendAnalysis.tsx lines 169-182 and 197-210
AddToTemporal(trendMap, key, post) ==
    LET added(tm, i) ==
            IF \E j \in 1..Len(tm[i].posts) : tm[i].posts[j].post_id = post.post_id
            THEN tm
            ELSE [tm EXCEPT ![i] =
                    [keyword |-> tm[i].keyword,
                     posts |-> Append(tm[i].posts, post),
                     totalEngagement |-> tm[i].totalEngagement + RawEngagement(post),
                     timeSeries |-> SetWeek(tm[i].timeSeries, WeekNum(post.timestamp),
                                            RawEngagement(post))]]
        fetched(tm) == added(tm, KeyIndex(tm, key))
    IN  fetched(IF KeyIndex(trendMap, key) > 0 THEN trendMap
                ELSE Append(trendMap, [keyword |-> key, posts |-> <<>>,
                                       totalEngagement |-> 0, timeSeries |-> <<>>]))

\* the keys a post reaches: its tags (lines 162-168), then the keywords its
\* content includes (lines 187-196)
TemporalKeysOf(post) ==
    (IF post.hashtags # ""
     THEN SelectSeq(TemporalTags(post.hashtags), LAMBDA tag : tag # "" /\ Len(tag) > 2)
     ELSE <<>>)
    \o SelectSeq(TemporalKeywords,
                 LAMBDA keyword : Includes(ToLowerCase(post.content), keyword))

RECURSIVE TemporalKeys(_, _, _)
TemporalKeys(trendMap, post, keys) ==
    IF keys = <<>> THEN trendMap
    ELSE TemporalKeys(AddToTemporal(trendMap, Head(keys), post), post, Tail(keys))

\* the body of data.forEach without the threshold test
TemporalPostNoThreshold(trendMap, post) ==
    TemporalKeys(trendMap, post, TemporalKeysOf(post))

\* TrendAnalysis.tsx lines 154-213: the body of data.forEach
TemporalPost(trendMap, post) ==
    IF RawEngagement(post) < TemporalThreshold THEN trendMap
    ELSE TemporalKeys(trendMap, post, TemporalKeysOf(post))

RECURSIVE TemporalMap(_, _)
TemporalMap(trendMap, posts) ==
    IF posts = <<>> THEN trendMap
    ELSE TemporalMap(TemporalPost(trendMap, Head(posts)), Tail(posts))

\* TrendAnalysis.tsx lines 220-223: the bucket values in ascending week order
ValuesOf(trendData) ==
    LET sorted(timeSeries) ==
            SortBy(timeSeries, [k \in 1..Len(timeSeries) |-> timeSeries[k].week])
        valuesOf(weeks) == [k \in 1..Len(weeks) |-> weeks[k].value]
    IN  valuesOf(sorted(trendData.timeSeries))

\* TrendAnalysis.tsx lines 237-273: the pattern pushed for one Trend
TemporalPatternOf(trendData) ==
    LET classified(rates, label) ==
            [topic |-> trendData.keyword,
             pattern |-> label,
             weeklyGrowth |-> [i \in 1..Len(rates) |-> Round(rates[i])],
             velocity |-> Velocity(rates),
             peakTime |-> IF label = "emerging" THEN "Expected in 2-4 weeks"
                          ELSE IF label = "declining" THEN "Peaked recently"
                          ELSE "Currently stable",
             totalEngagement |-> trendData.totalEngagement]
        rated(rates) == classified(rates, Classify(rates))
    IN  rated(GrowthRatesOf(ValuesOf(trendData)))

\* TrendAnalysis.tsx lines 144-277
ProcessTemporalPatterns(posts) ==
    LET kept(trendMap) ==
            SelectSeq(trendMap, LAMBDA trendData :
                /\ ~(Len(trendData.posts) < 2)
                /\ ~(Len(trendData.timeSeries) < 2)
                /\ ~(Len(GrowthRatesOf(ValuesOf(trendData))) = 0))
        patterns(trendData) ==
            [k \in 1..Len(trendData) |-> TemporalPatternOf(trendData[k])]
        ranked(ps) == SortBy(ps, [k \in 1..Len(ps) |-> -ps[k].totalEngagement])
    IN  ranked(patterns(kept(TemporalMap(<<>>, posts))))

MaxTemporalPosts == 3

\* rows of the CSV; a missing field is the empty string
TemporalPool ==
    TrendPool \cup
    { Post("p7", "Reddit", "u4", "crypto again", "#bitcoin",
           "Finance & Crypto", 10, 5, 4, 60) }

TemporalInputs == UNION {[1..n -> TemporalPool] : n \in 0..MaxTemporalPosts}

InitTemporal == /\ pc = "init" /\ values = <<>> /\ growthRates = <<>>
                /\ pattern = "none" /\ Idle

\* TrendAnalysis.tsx lines 101-142: the complete callback of the load and
\* processAllData
ProcessAllData(rows) ==
    /\ pc = "init"
    /\ data' = SelectSeq(rows, LAMBDA row : row.post_id # "")
    /\ temporalPatterns' = Take(ProcessTemporalPatterns(data'), 20)
    /\ loading' = FALSE
    /\ pc' = "temporal"
    /\ UNCHANGED <<loader, now, associationRules, frequentItemsets, sequentialPatterns,
                   previous, tallies, trends, values, growthRates, pattern,
                   metrics, trendScore>>

NextTemporal == \E rows \in TemporalInputs : ProcessAllData(rows)

SpecTemporal == InitTemporal /\ [][NextTemporal]_vars

\* data[i] reaches the key: its raw engagement is at or above the threshold
\* and the key is one of its hashtags or a vocabulary keyword in its text
Reaches(i, key) ==
    /\ RawEngagement(data[i]) >= TemporalThreshold
    /\ \/ \E tag \in Range(TemporalTags(data[i].hashtags)) :
             data[i].hashtags # "" /\ tag = key /\ Len(tag) > 2
       \/ /\ key \in Range(TemporalKeywords)
          /\ Includes(ToLowerCase(data[i].content), key)

\* the members of the Trend of a key: the first row of every post id
TemporalMembers(key) ==
    {i \in 1..Len(data) :
        /\ Reaches(i, key)
        /\ ~\E j \in 1..(i - 1) : Reaches(j, key) /\ data[j].post_id = data[i].post_id}

\* the period buckets of the Trend of a key
TemporalBuckets(key) == {WeekNum(data[i].timestamp) : i \in TemporalMembers(key)}

\* every key a row of the batch can reach
TemporalCandidates ==
    Range(TemporalKeywords)
    \cup UNION {Range(TemporalTags(data[i].hashtags)) : i \in 1..Len(data)}

\* C12: every TemporalPattern returned is built from a Trend with at least
\* 2 member posts, each of raw engagement at or above the threshold, over at
\* least 2 distinct period buckets; a Trend with fewer members or fewer
\* buckets is not in the output; every returned growth-rate sequence is
\* non-empty.
C12_TwoMembersTwoBuckets ==
    pc = "temporal" =>
        /\ \A p \in 1..Len(temporalPatterns) :
              /\ Cardinality(TemporalMembers(temporalPatterns[p].topic)) >= 2
              /\ Cardinality(TemporalBuckets(temporalPatterns[p].topic)) >= 2
              /\ Len(temporalPatterns[p].weeklyGrowth)
                    = Cardinality(TemporalBuckets(temporalPatterns[p].topic)) - 1
              /\ temporalPatterns[p].weeklyGrowth # <<>>
        /\ \A key \in TemporalCandidates :
              (Cardinality(TemporalMembers(key)) < 2
                  \/ Cardinality(TemporalBuckets(key)) < 2)
                => \A p \in 1..Len(temporalPatterns) : temporalPatterns[p].topic # key

\* a pattern is returned for a key that a row below the threshold reaches
C12_Witness ==
    /\ pc = "temporal"
    /\ \E i \in 1..Len(data) :
          /\ RawEngagement(data[i]) < TemporalThreshold
          /\ "bitcoin" \in Range(TemporalTags(data[i].hashtags))
    /\ \E p \in 1..Len(temporalPatterns) : temporalPatterns[p].topic = "bitcoin"

-----------------------------------------------------------------------------
(* The counting loops of the aggregator and the three miners, run on a     *)
(* post collection and on the same collection in another order.            *)

MaxCounted == 3

\* rows of the CSV; a missing field is the empty string
CountingPool ==
    { Post("", "Twitter", "u1", "bitcoin up", "#bitcoin", "Gaming", 60, 0, 0, 10),
      Post("", "Reddit", "u1", "bitcoin down", "", "Cricket", 90, 0, 0, 10),
      Post("c3", "Reddit", "u1", "Halo bitcoin", "#xbox", "Gaming", 70, 0, 0, 20),
      Post("c4", "Twitter", "u2", "crypto", "#xbox, #crypto", "Cricket", 50, 10, 0, 30),
      Post("c5", "Google", "u1", "", "", "Cricket", 1, 0, 0, 20) }

CountingInputs == UNION {[1..n -> CountingPool] : n \in 0..MaxCounted}

\* part_001 lines 214-281, part_000 lines 137-165, 339-361 and 409-444:
\* the maps after the data.forEach loops
TalliesOf(posts) ==
    [trendMap |-> AggregateAll(<<>>, posts),
     itemPairs |-> ItemPairs(posts),
     itemsetCounts |-> ItemsetCounts(posts),
     sequenceCounts |-> SequenceCounts(posts)]

InitCounting == /\ pc = "init" /\ values = <<>> /\ growthRates = <<>>
                /\ pattern = "none" /\ Idle

\* the loops run over the rows of a load
Count(rows) ==
    /\ pc = "init"
    /\ data' = rows
    /\ tallies' = TalliesOf(rows)
    /\ loading' = FALSE
    /\ pc' = "counted"
    /\ UNCHANGED <<loader, now, associationRules, frequentItemsets, sequentialPatterns,
                   previous, temporalPatterns, trends, values, growthRates,
                   pattern, metrics, trendScore>>

\* the loops run over the same rows with rows k and k + 1 exchanged; the
\* inputs hold every order of a collection, and exchanges of neighbours
\* lead from any order to any other
Recount(k) ==
    /\ pc = "counted"
    /\ k \in 1..(Len(data) - 1)
    /\ data' = [data EXCEPT ![k] = data[k + 1], ![k + 1] = data[k]]
    /\ previous' = tallies
    /\ tallies' = TalliesOf(data')
    /\ pc' = "recounted"
    /\ UNCHANGED <<loader, now, loading, associationRules, frequentItemsets,
                   sequentialPatterns, temporalPatterns, trends, values,
                   growthRates, pattern, metrics, trendScore>>

NextCounting ==
    \/ \E rows \in CountingInputs : Count(rows)
    \/ \E k \in 1..MaxCounted : Recount(k)

SpecCounting == InitCounting /\ [][NextCounting]_vars

\* C13: the counts do not depend on the order of the input: in another
\* order of the same posts every Trend key has the same member set and the
\* same total, every item pair the same occurrence count and every itemset
\* the same occurrence count.
C13_CountsOrderFree ==
    pc = "recounted" =>
        /\ {<<t.keyword, Range(t.posts), t.totalEngagement>> :
                t \in Range(tallies.trendMap)}
             = {<<t.keyword, Range(t.posts), t.totalEngagement>> :
                    t \in Range(previous.trendMap)}
        /\ {<<p.key, p.count>> : p \in Range(tallies.itemPairs)}
             = {<<p.key, p.count>> : p \in Range(previous.itemPairs)}
        /\ {<<s.key, s.count>> : s \in Range(tallies.itemsetCounts)}
             = {<<s.key, s.count>> : s \in Range(previous.itemsetCounts)}

\* C14: the transition tallies of the sequential miner do not depend on the
\* order of the input, also when one author has several posts of one
\* timestamp: every directed transition has the same count in another order
\* of the same posts.
C14_TransitionsOrderFree ==
    pc = "recounted" =>
        {<<c.seq, c.count>> : c \in Range(tallies.sequenceCounts)}
          = {<<c.seq, c.count>> : c \in Range(previous.sequenceCounts)}

-----------------------------------------------------------------------------
(* The Trend list after it has been returned.                              *)

\* C15: once trend extraction has returned a Trend none of its fields
\* changes: the order and content of its member list are the same after any
\* number of consumers have read it.
C15_ReturnedTrendUnchanged == [][pc = "trends" => trends' = trends]_vars

-----------------------------------------------------------------------------
(* calculateTrendMetrics as a function of a member set.                    *)

MaxMembers == 3

\* member posts; the last one has no engagement
MemberPool ==
    TrendPool \cup { Post("p8", "Reddit", "u4", "quiet", "", "Gaming", 0, 0, 0, 60) }

MemberInputs == UNION {[1..n -> MemberPool] : n \in 0..MaxMembers}

InitMetrics == /\ Unmounted /\ pc = "members" /\ data \in MemberInputs /\ now \in Clock
               /\ loading = TRUE /\ associationRules = <<>>
               /\ frequentItemsets = <<>> /\ sequentialPatterns = <<>>
               /\ previous = <<>> /\ temporalPatterns = <<>> /\ tallies = <<>>
               /\ trends = <<>> /\ values = <<>> /\ growthRates = <<>>
               /\ pattern = "none" /\ metrics = <<>> /\ trendScore = <<0, 1>>

\* part_001 lines 56-124: one call with the members data of a corpus of
\* totalPosts posts
CalculateMetrics(totalPosts) ==
    /\ pc = "members"
    /\ metrics' = CalculateTrendMetrics(data, totalPosts, now)
    /\ pc' = "measured"
    /\ UNCHANGED <<loader, data, now, loading, associationRules, frequentItemsets,
                   sequentialPatterns, previous, temporalPatterns, tallies,
                   trends, values, growthRates, pattern, trendScore>>

NextMetrics == \E extra \in 0..1 : CalculateMetrics(Len(data) + extra)

SpecMetrics == InitMetrics /\ [][NextMetrics]_vars

\* the members posted at most 7 days before now
RecentMembers == {i \in 1..Len(data) : now - data[i].timestamp <= 7}

\* the members posted more than 7 and at most 30 days before now
OlderMembers ==
    {i \in 1..Len(data) : now - data[i].timestamp > 7 /\ now - data[i].timestamp <= 30}

\* the older half of the members in chronological order: those that fewer
\* than floor(n / 2) members precede
OlderHalf ==
    {i \in 1..Len(data) :
        Cardinality({j \in 1..Len(data) :
            \/ data[j].timestamp < data[i].timestamp
            \/ (data[j].timestamp = data[i].timestamp /\ j < i)}) < Len(data) \div 2}

\* C16: the scorer does not fail for a non-empty member set: with an older
\* daily rate of 0 the velocity is the recent daily rate; with an older half
\* that is empty or has average engagement 0 the momentum is 1; an empty
\* member set scores support, velocity, momentum and score 0. The returned
\* sub-metrics are rounded to 2 decimals.
C16_ZeroDenominatorFallbacks ==
    pc = "measured" =>
        /\ DOMAIN metrics = {"support", "velocity", "momentum", "trendScore"}
        /\ \A f \in DOMAIN metrics : metrics[f][2] > 0
        /\ data = <<>> =>
              metrics = [support |-> RInt(0), velocity |-> RInt(0),
                         momentum |-> RInt(0), trendScore |-> RInt(0)]
        /\ (data # <<>> /\ OlderMembers = {}) =>
              metrics.velocity = Round2(Rat(Cardinality(RecentMembers), 7))
        /\ (data # <<>> /\ \A i \in OlderHalf : RawEngagement(data[i]) = 0) =>
              metrics.momentum = RInt(1)

\* the three fallbacks happen: no member in the older window, a single
\* member, and an older half without engagement beside a later member
C16_Witness ==
    /\ pc = "measured"
    /\ Len(data) = 3
    /\ OlderMembers = {}
    /\ RecentMembers # {}
    /\ OlderHalf # {}
    /\ \A i \in OlderHalf : RawEngagement(data[i]) = 0
    /\ \E i \in 1..Len(data) : RawEngagement(data[i]) > 0
    /\ metrics.momentum = RInt(1)
    /\ metrics.velocity # RInt(0)

-----------------------------------------------------------------------------
(* TrendMinerDashboard of part_002: extractTrends ranked by engagement.    *)

\* part_002 line 123
DashboardThreshold == 100

\* part_002 lines 159-169
DashboardKeywords ==
    << "diwali", "gemini", "llama", "llama2", "llama-3", "gpt-5", "mistral",
       "bts", "taylor swift", "beyoncé", "arijit singh", "bad bunny",
       "crypto", "bitcoin", "stocks", "markets", "isro", "chandrayaan",
       "space", "worldcup", "cricket", "kohli", "babar", "smith",
       "aamir khan", "ranveer singh", "heatwave", "climate", "cop29",
       "sustainability", "apple", "m5", "netflix", "gaming", "xbox", "ps5",
       "elections", "politics", "vote" >>

\* part_002 lines 125-189: the body of data.forEach; neither path tests
\* whether the post is a member already
DashboardPost(trendMap, post) ==
    IF RawEngagement(post) < DashboardThreshold THEN trendMap
    ELSE LET tagged(tags) ==
                 IF post.hashtags # "" THEN HashtagPath(trendMap, post, tags)
                 ELSE trendMap
         IN  HashtagPath(
                 tagged(SelectSeq(NormalizedTags(post.hashtags),
                                  LAMBDA tag : tag # "" /\ Len(tag) > 2)),
                 post,
                 SelectSeq(DashboardKeywords,
                           LAMBDA keyword : Includes(ToLowerCase(post.content), keyword)))

RECURSIVE DashboardMap(_, _)
DashboardMap(trendMap, posts) ==
    IF posts = <<>> THEN trendMap
    ELSE DashboardMap(DashboardPost(trendMap, Head(posts)), Tail(posts))

\* part_002 lines 111-202: the frontend extraction path
DashboardTrends(posts) ==
    IF Len(posts) = 0 THEN <<>>
    ELSE LET ranked(kept) ==
                 SortBy(kept, [i \in 1..Len(kept) |-> -kept[i].totalEngagement])
             returned(sorted) ==
                 [i \in 1..Len(sorted) |->
                     [keyword |-> sorted[i].keyword,
                      posts |-> sorted[i].posts,
                      totalEngagement |-> sorted[i].totalEngagement,
                      topics |-> sorted[i].topics,
                      platforms |-> sorted[i].platforms,
                      avgEngagement |-> Rat(sorted[i].totalEngagement,
                                            Len(sorted[i].posts))]]
         IN  returned(ranked(SelectSeq(DashboardMap(<<>>, posts),
                                       LAMBDA trend : Len(trend.posts) >= 2)))

\* rows of the CSV
DashboardPool ==
    { Post("p2", "Reddit", "u2", "crypto markets up", "#crypto",
           "Finance & Crypto", 900, 90, 9, 80),
      Post("p4", "Twitter", "u3", "bitcoin dip", "#bitcoin",
           "Finance & Crypto", 30, 0, 0, 95),
      Post("d1", "Twitter", "u1", "space launch", "#space",
           "Space & ISRO", 100, 0, 0, 99),
      Post("d2", "YouTube", "u3", "to space", "",
           "Space & ISRO", 60, 30, 10, 98),
      Post("d3", "Reddit", "u2", "crypto", "",
           "Finance & Crypto", 900, 90, 9, 80) }

DashboardInputs == UNION {[1..n -> DashboardPool] : n \in 0..MaxTrendPosts}

\* part_002 lines 79-83 and the render that recomputes the memo at the
\* instant at
DashboardComplete(rows, at) ==
    /\ pc = "init"
    /\ data' = rows
    /\ loading' = FALSE
    /\ now' = at
    /\ trends' = DashboardTrends(rows)
    /\ pc' = "trends"
    /\ UNCHANGED <<loader, associationRules, frequentItemsets, sequentialPatterns,
                   previous, temporalPatterns, tallies, values, growthRates,
                   pattern, metrics, trendScore>>

NextDashboard ==
    \E rows \in DashboardInputs, at \in Clock : DashboardComplete(rows, at)

SpecDashboard == InitTrends /\ [][NextDashboard]_vars

\* the composite score of a returned Trend
CompositeScoreOf(trend) ==
    CalculateTrendMetrics(trend.posts, Len(data), now).trendScore

\* C17: the Trend list is ordered by non-increasing composite score: of two
\* adjacent Trends the earlier has a composite score greater than or equal
\* to the later's.
C17_RankedByCompositeScore ==
    \A t \in 1..(Len(trends) - 1) :
        RLe(CompositeScoreOf(trends[t + 1]), CompositeScoreOf(trends[t]))

-----------------------------------------------------------------------------
(* The item sets of the itemset miner.                                     *)

\* C18: the itemset miner builds the item set of a post as the association
\* miner does, topic plus up to 2 hashtags plus up to 2 capitalized-word
\* keywords, and counts the sets of 2 or more items under their sorted item
\* list; every returned itemset has at least 2 items in sorted order.
C18_ItemsetsOfAssociationItems ==
    pc # "init" =>
        \A f \in 1..Len(frequentItemsets) :
            /\ Len(frequentItemsets[f].items) >= 2
            /\ frequentItemsets[f].items = SortStrings(frequentItemsets[f].items)
            /\ frequentItemsets[f].occurrence_count =
                 Cardinality({i \in 1..Len(data) :
                     /\ data[i].topic # ""
                     /\ SortStrings(ItemsOf(data[i])) = frequentItemsets[f].items})

-----------------------------------------------------------------------------
(* mineAssociationRules as a function of the post collection.              *)

BlockSize == 4

\* rows of the CSV, one kind of post each
RulePool ==
    << Post("r1", "Twitter", "u1", "", "#xbox, #halo", "Gaming", 5, 1, 0, 10),
       Post("r2", "Reddit", "u2", "", "#xbox, #halo", "Gaming", 5, 1, 0, 11),
       Post("r3", "YouTube", "u3", "", "#xbox, #halo", "Gaming", 5, 1, 0, 12),
       Post("r4", "Twitter", "u1", "", "#b|c, #z", "Food", 5, 1, 0, 10),
       Post("r5", "Reddit", "u2", "", "#b|c, #z", "Anime", 5, 1, 0, 11),
       Post("r6", "Twitter", "u1", "", "#b, #c", "Cricket", 5, 1, 0, 10),
       Post("r7", "Reddit", "u2", "", "#b, #c", "Music", 5, 1, 0, 11) >>

\* the collections made of a block of BlockSize rows of some of the kinds
RuleInputs ==
    {Flatten([k \in 1..Len(RulePool) |->
                 [i \in 1..(IF k \in kinds THEN BlockSize ELSE 0) |-> RulePool[k]]]) :
        kinds \in SUBSET (1..Len(RulePool))}

InitRules == /\ Unmounted /\ pc = "loaded" /\ data \in RuleInputs /\ now = 0
             /\ loading = TRUE /\ associationRules = <<>>
             /\ frequentItemsets = <<>> /\ sequentialPatterns = <<>>
             /\ previous = <<>> /\ temporalPatterns = <<>> /\ tallies = <<>>
             /\ trends = <<>> /\ values = <<>> /\ growthRates = <<>>
             /\ pattern = "none" /\ metrics = <<>> /\ trendScore = <<0, 1>>

\* part_000 lines 130-330: one call; random[i] is what Math.random()
\* returns for the i-th surviving pair
MineRules(random) ==
    /\ pc = "loaded"
    /\ associationRules' = MineAssociationRules(data, random)
    /\ pc' = "rules"
    /\ UNCHANGED <<loader, data, now, loading, frequentItemsets, sequentialPatterns,
                   previous, temporalPatterns, tallies, trends, values,
                   growthRates, pattern, metrics, trendScore>>

NextRules ==
    \E random \in [1..Len(SurvivingPairs(data)) -> RandomDraws] : MineRules(random)

SpecRules == InitRules /\ [][NextRules]_vars

\* the posts that added to the count of the pair of a rule: those with a
\* pair whose key reads as the two items of the rule (part_000 lines 150-157)
Contributing(rule) ==
    {i \in 1..Len(data) :
        /\ data[i].topic # ""
        /\ \E key \in Range(PairKeysOf(ItemsOf(data[i]))) :
              /\ Split(key, "|")[1] = rule.antecedent[1]
              /\ Split(key, "|")[2] = rule.consequent[1]}

\* the number of contributing posts of a platform
PlatformCount(rule, platform) ==
    Cardinality({i \in Contributing(rule) : data[i].platform = platform})

\* C19: the platforms field of a returned rule holds the at most 3 most
\* frequent platforms counted over all the posts that added to the pair's
\* count: its platforms are platforms of contributing posts, and a platform
\* that at most 2 others equal or exceed in count is in the field.
C19_PlatformsOverAllPosts ==
    pc = "rules" =>
        \A r \in 1..Len(associationRules) :
            LET rule == associationRules[r]
                all == {data[i].platform : i \in Contributing(rule)}
            IN  /\ Len(rule.platforms) <= 3
                /\ Range(rule.platforms) \subseteq all
                /\ \A p \in all :
                      Cardinality({q \in all \ {p} :
                          PlatformCount(rule, q) >= PlatformCount(rule, p)}) <= 2
                        => p \in Range(rule.platforms)


\* the surviving pairs whose primary topic (the first topic seen with the
\* pair) is topic
PairsOfTopic(topic) ==
    {p \in Range(SurvivingPairs(data)) : p.topics[1] = topic}

\* rule was made of the pair: the two items the key splits into, and its count
MadeOf(rule, pairData) ==
    /\ rule.antecedent[1] = Split(pairData.key, "|")[1]
    /\ rule.consequent[1] = Split(pairData.key, "|")[2]
    /\ rule.occurrence_count = pairData.count

\* the top rule of every primary topic comes first, one slot per topic
TopRulePerTopicFirst ==
    LET topics == {p.topics[1] : p \in Range(SurvivingPairs(data))}
    IN  \A topic \in topics :
            \E i \in 1..Min(Cardinality(topics), Len(associationRules)) :
                \E p \in PairsOfTopic(topic) :
                    /\ \A q \in PairsOfTopic(topic) : q.count <= p.count
                    /\ MadeOf(associationRules[i], p)

\* the slots after the per-topic rules are in non-increasing count order
BackfillByCount ==
    LET first == Cardinality({p.topics[1] : p \in Range(SurvivingPairs(data))})
    IN  \A i, j \in 1..Len(associationRules) :
            first < i /\ i < j =>
                associationRules[i].occurrence_count
                    >= associationRules[j].occurrence_count

\* C20: the returned rules start with the top rule (highest occurrence
\* count) of every primary topic that has a surviving rule, the slots after
\* them are filled in non-increasing occurrence-count order, and no two
\* returned rules have the same rule description.
C20_Diversified ==
    pc = "rules" =>
        /\ TopRulePerTopicFirst
        /\ BackfillByCount
        /\ \A i, j \in 1..Len(associationRules) :
               i # j => associationRules[i].rule # associationRules[j].rule

-----------------------------------------------------------------------------
(* The fallthrough of the classifier (SpecClassify).                       *)

\* none of the first three rules of the classifier matches growthRates
Fallthrough ==
    LET n == Len(growthRates)
        k == IF n < 3 THEN n ELSE 3
        total == RSum(growthRates)
        recent == RSum(SubSeq(growthRates, n - k + 1, n))
    IN  /\ ~(RLt(RInt(30 * k), recent) /\ RLt(RInt(15 * n), total))
        /\ ~(RLt(recent, RInt(-20 * k)) /\ RLt(total, RInt(-10 * n)))
        /\ ~(RLt(RInt(-15 * n), total) /\ RLt(total, RInt(15 * n)))

\* the positions whose rate has another sign than the rate before it and a
\* magnitude above 10
Reversals ==
    {i \in 2..Len(growthRates) :
        /\ \/ (growthRates[i][1] > 0) # (growthRates[i - 1][1] > 0)
           \/ (growthRates[i][1] < 0) # (growthRates[i - 1][1] < 0)
        /\ Abs(growthRates[i][1]) > 10 * growthRates[i][2]}

\* C24: when none of the first three rules matches, the label is cyclical
\* if the number of positions i where the sign of rate i differs from the
\* sign of rate i-1 and |rate i| > 10 is at least max(2, n/3), and
\* sustained otherwise; a cyclical sequence has |avgGrowth| >= 15 and at
\* least 3 rates.
C24_CyclicalBySignChanges ==
    pc = "classified" =>
        LET n == Len(growthRates)
            changes == Cardinality(Reversals)
            enough == changes >= 2 /\ 3 * changes >= n
        IN  /\ (Fallthrough /\ enough) => pattern = "cyclical"
            /\ (Fallthrough /\ ~enough) => pattern = "sustained"
            /\ pattern = "cyclical" =>
                  /\ Fallthrough
                  /\ n >= 3
                  /\ Abs(RSum(growthRates)[1]) >= 15 * n * RSum(growthRates)[2]

C24_Witness ==
    /\ pc = "classified"
    /\ pattern = "cyclical"
    /\ values = <<20, 100, 20, 35, 20>>
    /\ Cardinality(Reversals) = 3

-----------------------------------------------------------------------------
(* The growth rate of a rule (SpecGrowth): collections of MinPairCount     *)
(* posts of one pair spread over three weeks.                              *)

\* one post of the pair Gaming / xbox in each of three weeks
GrowthPool ==
    { Post("g1", "Twitter", "u1", "", "#xbox", "Gaming", 5, 1, 0, 3),
      Post("g2", "Reddit", "u2", "", "#xbox", "Gaming", 5, 1, 0, 10),
      Post("g3", "YouTube", "u3", "", "#xbox", "Gaming", 5, 1, 0, 17) }

\* the first 6 rows vary, one more than a pair stores; the rows after them
\* repeat the sixth
GrowthInputs ==
    {[i \in 1..MinPairCount |-> rows[Min(i, 6)]] : rows \in [1..6 -> GrowthPool]}

InitGrowth == /\ Unmounted /\ pc = "loaded" /\ data \in GrowthInputs /\ now = 0
              /\ loading = TRUE /\ associationRules = <<>>
              /\ frequentItemsets = <<>> /\ sequentialPatterns = <<>>
              /\ previous = <<>> /\ temporalPatterns = <<>> /\ tallies = <<>>
              /\ trends = <<>> /\ values = <<>> /\ growthRates = <<>>
              /\ pattern = "none" /\ metrics = <<>> /\ trendScore = <<0, 1>>

SpecGrowth == InitGrowth /\ [][NextRules]_vars

\* the direction labels the miner gives to the rules of these collections
DirectionsProduced ==
    UNION {UNION {LET rules == MineAssociationRules(rows, random)
                  IN  {rules[r].trend_direction : r \in 1..Len(rules)} :
                  random \in [1..Len(SurvivingPairs(rows)) -> RandomDraws]} :
           rows \in GrowthInputs}

\* every returned rule has a growth rate in [-50, 100] and is not fading
GrowthInRange ==
    \A r \in 1..Len(associationRules) :
        /\ associationRules[r].growth_rate >= -50
        /\ associationRules[r].growth_rate <= 100
        /\ associationRules[r].trend_direction # "Fading"

\* C27: every returned rule has growth_rate in [-50, 100], so the labels
\* rising fast (> 50), growing (> 15), declining (< -15) and stable are
\* produced for some input and the label fading (< -50) for none.
C27_FourLabelsReachable ==
    /\ pc = "rules" => GrowthInRange
    /\ {"Rising Fast", "Growing", "Declining", "Stable"} \subseteq DirectionsProduced
    /\ "Fading" \notin DirectionsProduced

\* C27 as the code has it: the growth rate is in [-50, 100] and the label
\* is rising fast, declining or stable; neither fading nor growing is
\* produced, a positive growth over at most 5 posts being above 50 and the
\* one-week fallback at most 15.
C27_ThreeLabelsReachable ==
    /\ pc = "rules" =>
          /\ GrowthInRange
          /\ \A r \in 1..Len(associationRules) :
                /\ associationRules[r].trend_direction
                      \in {"Rising Fast", "Declining", "Stable"}
                /\ associationRules[r].growth_rate > 0
                      => \/ associationRules[r].growth_rate > 50
                         \/ associationRules[r].growth_rate <= 15
    /\ DirectionsProduced = {"Rising Fast", "Declining", "Stable"}

C27_Witness ==
    /\ pc = "rules"
    /\ \E r \in 1..Len(associationRules) :
          /\ associationRules[r].growth_rate = -17
          /\ associationRules[r].trend_direction = "Declining"


\* the posts of data that have the pair of key among their pairs, in input
\* order
ContributingPosts(key) ==
    SelectSeq(data, LAMBDA post :
        post.topic # "" /\ key \in Range(PairKeysOf(ItemsOf(post))))

\* the number of stored posts of a pair in the k-th of its weeks, in
\* ascending order of the weeks
WeekCount(stored, k) ==
    LET weekSet == {stored[i].timestamp \div 7 : i \in 1..Len(stored)}
        week == CHOOSE w \in weekSet : Cardinality({v \in weekSet : v < w}) = k - 1
    IN  Cardinality({i \in 1..Len(stored) : stored[i].timestamp \div 7 = week})

WeeksOf(stored) ==
    Cardinality({stored[i].timestamp \div 7 : i \in 1..Len(stored)})

\* C28: each pair keeps the first 5 contributing posts in input order and
\* no more, a surviving pair exactly 5; over them the first, middle and
\* last week counts are never strictly increasing, so a positive growth is
\* round(min(100, 50 + rawGrowth/4)) without the +15 bonus; a surviving
\* pair has at least 2 stored posts and a first week count above 0.
C28_FiveExamplePosts ==
    pc = "rules" =>
        \A p \in Range(ItemPairs(data)) :
            /\ p.posts = Take(ContributingPosts(p.key), 5)
            /\ p.count >= MinPairCount =>
                 LET n == WeeksOf(p.posts)
                     first == WeekCount(p.posts, 1)
                     middle == WeekCount(p.posts, n \div 2 + 1)
                     last == WeekCount(p.posts, n)
                 IN  /\ Len(p.posts) = 5
                     /\ first > 0
                     /\ ~(middle > first /\ last > middle)
                     /\ \A r \in 1..Len(associationRules) :
                          (MadeOf(associationRules[r], p) /\ n >= 2 /\ last > first)
                            => associationRules[r].growth_rate
                                 = Round(RMin(RInt(100),
                                      RAdd(RInt(50), Rat((last - first) * 25, first))))

\* the sixth contributing post would make the week counts 1, 2, 3
C28_Witness ==
    /\ pc = "rules"
    /\ [i \in 1..6 |-> data[i].timestamp \div 7] = <<0, 1, 1, 2, 2, 2>>
    /\ Len(associationRules) = 1
    /\ associationRules[1].growth_rate = 75

-----------------------------------------------------------------------------
(* The popularity score of a rule.                                         *)

\* the contextualPosts of a pair: lines 174-184 on the two parts of its key
ContextualOf(pairData) ==
    ContextualPosts(data, Split(pairData.key, "|")[1], Split(pairData.key, "|")[2])

\* C26: a surviving pair whose items hold no "|" has contextualPosts >=
\* occurrence count > 0, every contributing post naming one of its items
\* in its topic, hashtags or content; so its popularity score is the
\* capped ratio and never the corpus-wide fallback.
C26_ContextualAtLeastCount ==
    pc \in {"mined", "mined again", "rules"} =>
        \A p \in Range(SurvivingPairs(data)) :
            Len(Split(p.key, "|")) = 2 =>
                /\ p.count > 0
                /\ ContextualOf(p) >= p.count
                /\ \A r \in 1..Len(associationRules) :
                      MadeOf(associationRules[r], p) =>
                          associationRules[r].popularity_score
                              = Min(85, Round(Rat(p.count * 100, ContextualOf(p))))

\* a topic / keyword pair of eight posts, the keyword named by content only
C26_Witness ==
    /\ pc = "mined"
    /\ \E p \in Range(SurvivingPairs(data)) :
          /\ p.key = "Gaming|Halo"
          /\ ContextualOf(p) >= p.count
          /\ \E r \in 1..Len(associationRules) : MadeOf(associationRules[r], p)


\* C25: every returned rule has a popularity score between 0 and 85, the
\* value min(85, round(count / contextualPosts * 100)) with contextualPosts
\* the number of posts that name either item in content, topic or
\* hashtags; the uncapped fallback is used only when contextualPosts is 0.
C25_PopularityCapped ==
    pc = "rules" =>
        \A r \in 1..Len(associationRules) :
            /\ associationRules[r].popularity_score >= 0
            /\ associationRules[r].popularity_score <= 85
            /\ \A p \in Range(SurvivingPairs(data)) :
                  (MadeOf(associationRules[r], p) /\ ContextualOf(p) > 0) =>
                      associationRules[r].popularity_score
                          = Min(85, Round(Rat(p.count * 100, ContextualOf(p))))

-----------------------------------------------------------------------------
(* The totals of the temporal aggregator (SpecTemporal).                   *)

\* the trendMap after the first n posts of data
TemporalMapAfter(n) == TemporalMap(<<>>, Take(data, n))

\* the entry of key in a trendMap, or an empty entry when it has none
TemporalEntry(trendMap, key) ==
    IF KeyIndex(trendMap, key) > 0 THEN trendMap[KeyIndex(trendMap, key)]
    ELSE [keyword |-> key, posts |-> <<>>, totalEngagement |-> 0, timeSeries |-> <<>>]

-----------------------------------------------------------------------------
(* The dashboard loader (part_001 lines 141-184, the same code as part_002 *)
(* lines 52-95) and toggleInterest.                                        *)

\* the topics the interest cards offer
InterestTopics == {"AI", "Cricket", "Gaming"}

\* result.trends of a backend response
BackendResults == {<<>>, <<[keyword |-> "bitcoin", total_engagement |-> 99]>>}

\* results.data of a parse
LoaderRows == {<<>>} \cup {<<p>> : p \in TrendPool}

InitLoader == /\ Unmounted /\ pc = "init" /\ data = <<>> /\ now = 0
              /\ loading = TRUE /\ associationRules = <<>>
              /\ frequentItemsets = <<>> /\ sequentialPatterns = <<>>
              /\ previous = <<>> /\ temporalPatterns = <<>> /\ tallies = <<>>
              /\ trends = <<>> /\ values = <<>> /\ growthRates = <<>>
              /\ pattern = "none" /\ metrics = <<>> /\ trendScore = <<0, 1>>

\* the variables the loader leaves alone
rest == <<data, now, associationRules, frequentItemsets, sequentialPatterns,
          previous, temporalPatterns, tallies, trends, values, growthRates,
          pattern, metrics, trendScore>>

\* the loadData calls: the one of the mount and the one that follows the
\* change of useBackend
LoadCalls == 1..2

\* the positions at which a loadData call has ended: after the backend
\* answer, in the complete callback, in the error callback, in the catch
\* of the CSV fetch
Ended == {"returned", "complete", "parse failed", "csv failed"}

\* the i-th loadData call awaits at position
InFlight(i, position) == i <= Len(loadData) /\ loadData[i] = position

\* part_001 lines 140-144 and 183: the effect runs loadData, which awaits
\* the backend when useBackend is set and the CSV file otherwise
Mount ==
    /\ pc = "init"
    /\ loadData' = <<IF useBackend THEN "backend" ELSE "csv">>
    /\ pc' = "mounted"
    /\ UNCHANGED <<rest, loading, useBackend, backendTrends, selectedInterests>>

\* part_001 lines 146-153: the backend answers OK
BackendOk(i, result) ==
    /\ InFlight(i, "backend")
    /\ backendTrends' = result
    /\ loading' = FALSE
    /\ loadData' = [loadData EXCEPT ![i] = "returned"]
    /\ UNCHANGED <<rest, pc, useBackend, selectedInterests>>

\* part_001 lines 146-147 and 160: the backend answers not OK
BackendNotOk(i) ==
    /\ InFlight(i, "backend")
    /\ loadData' = [loadData EXCEPT ![i] = "csv"]
    /\ UNCHANGED <<rest, pc, loading, useBackend, backendTrends, selectedInterests>>

\* part_001 lines 154-157 and 184: the backend fetch throws; useBackend
\* changes, so the effect runs loadData once more
BackendThrows(i) ==
    /\ InFlight(i, "backend")
    /\ useBackend' = FALSE
    /\ loadData' = IF useBackend THEN Append([loadData EXCEPT ![i] = "csv"], "csv")
                   ELSE [loadData EXCEPT ![i] = "csv"]
    /\ UNCHANGED <<rest, pc, loading, backendTrends, selectedInterests>>

\* part_001 lines 162-164: the CSV is fetched and handed to Papa.parse
CsvFetched(i) ==
    /\ InFlight(i, "csv")
    /\ loadData' = [loadData EXCEPT ![i] = "parse"]
    /\ UNCHANGED <<rest, pc, loading, useBackend, backendTrends, selectedInterests>>

\* part_001 lines 178-181: the CSV fetch throws
CsvThrows(i) ==
    /\ InFlight(i, "csv")
    /\ loading' = FALSE
    /\ loadData' = [loadData EXCEPT ![i] = "csv failed"]
    /\ UNCHANGED <<rest, pc, useBackend, backendTrends, selectedInterests>>

\* part_001 lines 168-172: the complete callback
ParseComplete(i, rows) ==
    /\ InFlight(i, "parse")
    /\ data' = rows
    /\ loading' = FALSE
    /\ loadData' = [loadData EXCEPT ![i] = "complete"]
    /\ UNCHANGED <<now, associationRules, frequentItemsets, sequentialPatterns,
                   previous, temporalPatterns, tallies, trends, values,
                   growthRates, pattern, metrics, trendScore,
                   pc, useBackend, backendTrends, selectedInterests>>

\* the error callback leaving the loading flag alone
ParseErrorKeepsLoading(i) ==
    /\ InFlight(i, "parse")
    /\ loadData' = [loadData EXCEPT ![i] = "parse failed"]
    /\ UNCHANGED <<rest, pc, loading, useBackend, backendTrends, selectedInterests>>

\* part_001 lines 173-176: the error callback
ParseError(i) ==
    /\ InFlight(i, "parse")
    /\ loading' = FALSE
    /\ loadData' = [loadData EXCEPT ![i] = "parse failed"]
    /\ UNCHANGED <<rest, pc, useBackend, backendTrends, selectedInterests>>

\* part_001 lines 415-419: the updater of setSelectedInterests
Toggled(prev, topic) ==
    IF \E k \in 1..Len(prev) : prev[k] = topic
    THEN SelectSeq(prev, LAMBDA t : t # topic)
    ELSE Append(prev, topic)

\* part_001 lines 414-420 and 422: a click on an interest card, which the
\* component renders once it is no longer loading
ToggleInterest(topic) ==
    /\ loading = FALSE
    /\ selectedInterests' = Toggled(selectedInterests, topic)
    /\ UNCHANGED <<rest, pc, loading, useBackend, backendTrends, loadData>>

\* one step of the i-th loadData call
LoadStep(i) ==
    \/ \E result \in BackendResults : BackendOk(i, result)
    \/ BackendNotOk(i)
    \/ BackendThrows(i)
    \/ CsvFetched(i)
    \/ CsvThrows(i)
    \/ \E rows \in LoaderRows : ParseComplete(i, rows)
    \/ ParseError(i)

NextLoader ==
    \/ Mount
    \/ \E i \in LoadCalls, result \in BackendResults : BackendOk(i, result)
    \/ \E i \in LoadCalls : BackendNotOk(i)
    \/ \E i \in LoadCalls : BackendThrows(i)
    \/ \E i \in LoadCalls : CsvFetched(i)
    \/ \E i \in LoadCalls : CsvThrows(i)
    \/ \E i \in LoadCalls, rows \in LoaderRows : ParseComplete(i, rows)
    \/ \E i \in LoadCalls : ParseError(i)
    \/ \E topic \in InterestTopics : ToggleInterest(topic)

\* the effect runs after the first render, and every awaited fetch and
\* parse settles
SpecLoader ==
    /\ InitLoader /\ [][NextLoader]_vars
    /\ WF_vars(Mount)
    /\ \A i \in LoadCalls : WF_vars(LoadStep(i))

\* C30: on every path of the loader the loading flag is eventually false,
\* and it is false once every loadData call has finished; the selected
\* interests never hold a topic twice, and toggling a topic twice in a row
\* gives back the set of selected topics.
C30_LoadingEndsInterestsUnique ==
    /\ <>(loading = FALSE)
    /\ []((loadData # <<>> /\ \A i \in 1..Len(loadData) : loadData[i] \in Ended)
             => loading = FALSE)
    /\ [](\A i, j \in 1..Len(selectedInterests) :
             i # j => selectedInterests[i] # selectedInterests[j])
    /\ [](\A topic \in InterestTopics :
             Range(Toggled(Toggled(selectedInterests, topic), topic))
                 = Range(selectedInterests))

\* the backend threw, both loadData calls fell back to the CSV, one parse
\* failed and one completed; two topics are selected
C30_Witness ==
    /\ useBackend = FALSE
    /\ loadData = <<"parse failed", "complete">>
    /\ loading = FALSE
    /\ data # <<>>
    /\ selectedInterests = <<"Gaming", "AI">>

-----------------------------------------------------------------------------
(* The caps of the three miners (SpecCaps): collections with more          *)
(* candidates than a miner returns.                                        *)

MaxBlock == 8

CapTopics ==
    << "AI", "Anime", "Cricket", "Food", "Gaming", "Health", "Movies",
       "Music", "News", "Politics", "Space", "Travel", "Weather" >>

CapUsers == << "u1", "u2", "u3", "u4", "u5", "u6", "u7", "u8", "u9" >>

\* the kinds of post, as <<topic, hashtags>>: every topic with two
\* hashtags, every topic with a third hashtag in another order, the first
\* topic twice with a fourth hashtag, and the second kind once more
Kinds ==
    [k \in 1..13 |-> <<k, 1>>] \o [k \in 1..13 |-> <<((2 * (k - 1)) % 13) + 1, 2>>]
        \o << <<1, 3>>, <<1, 3>>, <<2, 1>> >>

\* row j of the block of the k-th kind: the j-th user posts it on day
\* k + 40 * (j - 1)
CapRow(k, j) ==
    LET topic == CapTopics[Kinds[k][1]]
    IN  Post("c1", "Twitter", CapUsers[j], "",
             IF Kinds[k][2] = 1 THEN "#" \o topic \o "one, #" \o topic \o "two"
             ELSE IF Kinds[k][2] = 2 THEN "#" \o topic \o "three"
             ELSE "#" \o topic \o "four",
             topic, 5, 1, 0, k + 40 * (j - 1))

\* the first n kinds, a block of size rows each
CapInputs ==
    {Flatten([k \in 1..n |-> [j \in 1..size |-> CapRow(k, j)]]) :
        n \in 0..Len(Kinds), size \in {2, 3, MaxBlock}}

InitCaps == /\ Unmounted /\ pc = "loaded" /\ data \in CapInputs /\ now = 0
            /\ loading = TRUE /\ associationRules = <<>>
            /\ frequentItemsets = <<>> /\ sequentialPatterns = <<>>
            /\ previous = <<>> /\ temporalPatterns = <<>> /\ tallies = <<>>
            /\ trends = <<>> /\ values = <<>> /\ growthRates = <<>>
            /\ pattern = "none" /\ metrics = <<>> /\ trendScore = <<0, 1>>

\* part_000 lines 198-251: Math.random() is called for the pairs whose
\* stored posts fall in fewer than 2 weeks; the draws of a run, one for
\* each of them
Draws(posts) ==
    LET drawn(pairs) ==
            {i \in 1..Len(pairs) :
                Cardinality({Week(pairs[i].posts[k].timestamp) :
                                k \in 1..Len(pairs[i].posts)}) < 2}
        draws(pairs) ==
            {[i \in 1..Len(pairs) |-> IF i \in drawn(pairs) THEN f[i] ELSE RInt(0)] :
                f \in [drawn(pairs) -> RandomDraws]}
    IN  draws(SurvivingPairs(posts))

\* part_000 lines 86-97: the three miners on the parsed rows
MinePatterns(random) ==
    /\ pc = "loaded"
    /\ associationRules' = MineAssociationRules(data, random)
    /\ frequentItemsets' = MineFrequentItemsets(data)
    /\ sequentialPatterns' = MineSequentialPatterns(data)
    /\ loading' = FALSE
    /\ pc' = "mined"
    /\ UNCHANGED <<loader, data, now, previous, temporalPatterns, tallies, trends,
                   values, growthRates, pattern, metrics, trendScore>>

NextCaps == \E random \in Draws(data) : MinePatterns(random)

SpecCaps == InitCaps /\ [][NextCaps]_vars


\* the transitions that pass the threshold of the sequential miner
KeptTransitions == SelectSeq(SequenceCounts(data), LAMBDA c : c.count >= 3)

\* the itemset keys that pass the threshold of the itemset miner
KeptItemsets == SelectSeq(ItemsetCounts(data), LAMBDA d : d.count >= 8)

\* C21: the association miner returns at most 30 rules, the itemset miner
\* at most 24 itemsets and the sequential miner at most 15 patterns; the
\* patterns are in non-increasing order of occurrence count and are the
\* transitions with the 15 highest counts.
C21_OutputsCapped ==
    pc = "mined" =>
        /\ Len(associationRules) <= 30
        /\ Len(frequentItemsets) <= 24
        /\ Len(sequentialPatterns) = Min(15, Len(KeptTransitions))
        /\ \A i, j \in 1..Len(sequentialPatterns) :
              i < j => sequentialPatterns[i].occurrence_count
                          >= sequentialPatterns[j].occurrence_count
        /\ \A c \in Range(KeptTransitions) :
              \/ \E i \in 1..Len(sequentialPatterns) :
                    /\ sequentialPatterns[i].sequence = Split(c.seq, "|")
                    /\ sequentialPatterns[i].occurrence_count = c.count
              \/ \A i \in 1..Len(sequentialPatterns) :
                    sequentialPatterns[i].occurrence_count >= c.count

\* every cap cuts: more than 30 surviving pairs, more than 24 itemsets
\* and more than 15 transitions of unequal counts
C21_Witness ==
    /\ pc = "mined"
    /\ Len(SurvivingPairs(data)) > 30 /\ Len(associationRules) = 30
    /\ Len(KeptItemsets) > 24 /\ Len(frequentItemsets) = 24
    /\ Len(KeptTransitions) > 15 /\ Len(sequentialPatterns) = 15
    /\ sequentialPatterns[1].occurrence_count > sequentialPatterns[15].occurrence_count

\* the entry of the itemsetCounts map a returned itemset was made of
EntryOf(itemset, kept) ==
    CHOOSE d \in Range(kept) : Split(d.key, "|") = itemset.items

\* the primary topic (first topic seen with the key) of each returned itemset
PrimaryTopics(kept) ==
    [i \in 1..Len(frequentItemsets) |-> EntryOf(frequentItemsets[i], kept).topics[1]]

\* C22: the returned itemsets hold at most 2 itemsets of a primary topic
\* (the first topic seen with the itemset key), each of them among the 2
\* highest counts of that topic, and the list is in non-increasing order of
\* occurrence count.
C22_TwoPerTopic ==
    pc = "mined" =>
        LET Holds(kept, topic) ==
                /\ \A i \in 1..Len(frequentItemsets) :
                      /\ Cardinality({j \in 1..Len(frequentItemsets) :
                                         topic[j] = topic[i]}) <= 2
                      /\ Cardinality({k \in 1..Len(kept) :
                             /\ kept[k].topics[1] = topic[i]
                             /\ kept[k].count
                                   > frequentItemsets[i].occurrence_count}) < 2
                /\ \A i, j \in 1..Len(frequentItemsets) :
                      i < j => frequentItemsets[i].occurrence_count
                                  >= frequentItemsets[j].occurrence_count
            WithKept(kept) == Holds(kept, PrimaryTopics(kept))
        IN  WithKept(KeptItemsets)

\* the first topic has three itemsets that pass the threshold, and the one
\* with the highest count leads the list
C22_Witness ==
    /\ pc = "mined"
    /\ Len(frequentItemsets) >= 3
    /\ frequentItemsets[1].items = <<"AI", "AIfour">>
    /\ frequentItemsets[1].occurrence_count > frequentItemsets[3].occurrence_count
    /\ LET Three(kept) == Cardinality({k \in 1..Len(kept) :
                                          kept[k].topics[1] = CapTopics[1]}) = 3
       IN  Three(KeptItemsets)

\* C23: every returned itemset has occurrence_count >= 8 and
\* popularity_score = min(80, round(count / totalPosts * 1200)), at most 80;
\* every returned sequential pattern has occurrence_count >= 3.
C23_ThresholdsApplied ==
    pc = "mined" =>
        /\ \A i \in 1..Len(frequentItemsets) :
              /\ frequentItemsets[i].occurrence_count >= 8
              /\ frequentItemsets[i].popularity_score <= 80
              /\ frequentItemsets[i].popularity_score
                    = Min(80, Round(Rat(frequentItemsets[i].occurrence_count * 1200,
                                        Len(data))))
        /\ \A i \in 1..Len(sequentialPatterns) :
              sequentialPatterns[i].occurrence_count >= 3

\* an itemset whose score the cap cuts, beside returned patterns
C23_Witness ==
    /\ pc = "mined"
    /\ \E i \in 1..Len(frequentItemsets) :
          /\ frequentItemsets[i].popularity_score = 80
          /\ frequentItemsets[i].occurrence_count * 1200 > 81 * Len(data)
    /\ Len(sequentialPatterns) > 0

====
